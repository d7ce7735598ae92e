--------------------------- MODULE HashChainProofs --------------------------
(***************************************************************************)
(* Theorems about the hash-chained ledger, for any number of threads,      *)
(* ledgers, events, blocks and clock ticks: the chain is gapless and       *)
(* linked, its timestamps are ordered, what was acknowledged is stored,    *)
(* and the whole implements the append-only audit log.                     *)
(*                                                                         *)
(* None of these facts is inductive by itself.  What a writer read may be  *)
(* stale when it inserts, so the invariant must say how stale it can be:   *)
(* the block it links to is still there, with the hash it read and a time  *)
(* no later than the writer's own (ViewOK).  A stale writer is then one    *)
(* whose number is taken, and the UNIQUE column refuses it.                *)
(***************************************************************************)
EXTENDS HashChain, Sequences, TLAPS

\* What an open append knows of the chain stays true while it is open.
ViewOK ==
    \A w \in Writers :
        /\ writer[w].pc \in {"stamp", "commit"} =>
              /\ writer[w].number \in 1..(Height + 1)
              /\ writer[w].prev = HashAt(blocks, writer[w].number - 1)
        /\ writer[w].pc = "commit" =>
              /\ writer[w].tx_hash =
                    sha256_of(writer[w].prev, writer[w].event, IsoAware(writer[w].at))
              /\ \A n \in DOMAIN blocks :
                    n < writer[w].number => blocks[n].at <= writer[w].at

\* The stored numbers are an initial segment; kept apart from ChainLinked
\* because it is what Height is computed from.
Gapless == \E h \in Nat : DOMAIN blocks = 1..h

IInv == TypeOK /\ Gapless /\ ChainLinked /\ TimestampsOrdered /\ AckedStored /\ ViewOK

-----------------------------------------------------------------------------
(* Lemmas                                                                  *)

\* The maximum of an initial segment is its length.
LEMMA MaxOfSegment ==
    ASSUME NEW h \in Nat
    PROVE  (IF 1..h = {} THEN 0 ELSE CHOOSE n \in 1..h : \A m \in 1..h : m <= n) = h
<1>1. CASE h = 0
  BY <1>1
<1>2. CASE h > 0
  <2>1. h \in 1..h /\ \A m \in 1..h : m <= h
    BY <1>2
  <2>2. \A n \in 1..h : (\A m \in 1..h : m <= n) => n = h
    BY <1>2
  <2> QED BY <2>1, <2>2
<1> QED BY <1>1, <1>2

\* Height is the length of a gapless table.
LEMMA HeightOfGapless ==
    ASSUME NEW h \in Nat, DOMAIN blocks = 1..h
    PROVE  Height = h
BY MaxOfSegment DEF Height

\* The same after a step.
LEMMA HeightOfGaplessNext ==
    ASSUME NEW h \in Nat, DOMAIN blocks' = 1..h
    PROVE  Height' = h
BY MaxOfSegment DEF Height

\* In the inductive invariant Height is the number of blocks.
LEMMA HeightFacts ==
    ASSUME IInv
    PROVE  Height \in Nat /\ DOMAIN blocks = 1..Height
BY HeightOfGapless DEF IInv, Gapless

\* An insert that the UNIQUE columns let pass lands just above the chain.
LEMMA InsertAtTop ==
    ASSUME IInv, NEW w \in Writers, writer[w].pc = "commit", Unique(w), Insert(w)
    PROVE  /\ writer[w].number = Height + 1
           /\ DOMAIN blocks' = 1..(Height + 1)
           /\ Height' = Height + 1
           /\ blocks'[Height + 1] = NewRow(w)
           /\ \A n \in 1..Height : blocks'[n] = blocks[n]
<1>0. Height \in Nat /\ DOMAIN blocks = 1..Height
  BY HeightFacts
<1>1. writer[w].number = Height + 1
  BY <1>0 DEF IInv, ViewOK, Unique
<1>2. DOMAIN blocks' = 1..(Height + 1)
  BY <1>0, <1>1 DEF Insert
<1>3. Height' = Height + 1
  BY <1>0, <1>2, HeightOfGaplessNext
<1>4. blocks'[Height + 1] = NewRow(w)
  BY <1>0, <1>1 DEF Insert
<1>5. \A n \in 1..Height : blocks'[n] = blocks[n]
  BY <1>0, <1>1 DEF Insert
<1> QED BY <1>1, <1>2, <1>3, <1>4, <1>5

-----------------------------------------------------------------------------
(* Type correctness, action by action                                      *)

\* Types hold at the start.
LEMMA InitType == Init => TypeOK
BY EventsAssumption, BoundsAssumption
   DEF Init, TypeOK, IdleWriter, PCs

\* Every step keeps types, given the rest of the invariant.
LEMMA NextType ==
    ASSUME IInv, [Next]_vars
    PROVE  TypeOK'
<1>0. TypeOK /\ Height \in Nat
  BY HeightFacts DEF IInv
<1> USE <1>0, EventsAssumption, BoundsAssumption DEF TypeOK, PCs
<1>1. CASE \E w \in Writers, e \in Events : AppendCall(w, e)
  BY <1>1 DEF AppendCall
<1>2. ASSUME NEW w \in Writers, PrimaryFails(w)
      PROVE  TypeOK'
  <2>1. writer' = [writer EXCEPT ![w] = [pc |-> "read", event |-> writer[w].event]]
    BY <1>2 DEF PrimaryFails
  <2>2. degraded' \in [Ledgers -> BOOLEAN]
    BY <1>2 DEF PrimaryFails
  <2>3. UNCHANGED <<blocks, now>> /\ writer[w].event \in Events
    BY <1>2 DEF PrimaryFails
  <2> QED BY <2>1, <2>2, <2>3
<1>3. CASE \E w \in Writers : ReadLast(w)
  BY <1>3 DEF ReadLast
<1>4. CASE \E w \in Writers : Stamp(w)
  BY <1>4 DEF Stamp
<1>5. ASSUME NEW w \in Writers, writer[w].pc = "commit", Unique(w),
             writer[w].number <= MaxBlocks, Insert(w), Return(w),
             UNCHANGED <<now, degraded>>
      PROVE  TypeOK'
  BY <1>5 DEF Insert, Return, NewRow, IdleWriter
<1>6. CASE \E w \in Writers : Commit(w) \/ CommitAckLost(w)
  BY <1>5, <1>6 DEF Commit, CommitAckLost
<1>7. CASE \E w \in Writers : CommitConflict(w) \/ DatabaseError(w)
  BY <1>7 DEF CommitConflict, DatabaseError, Return, IdleWriter
<1>8. CASE \E l \in Ledgers : Restart(l)
  BY <1>8 DEF Restart, IdleWriter
<1>9. CASE Tick
  BY <1>9 DEF Tick
<1>10. CASE UNCHANGED vars
  BY <1>10 DEF vars
<1> QED
  BY <1>1, <1>2, <1>3, <1>4, <1>6, <1>7, <1>8, <1>9, <1>10 DEF Next

-----------------------------------------------------------------------------
(* The inductive invariant                                                 *)

\* The invariant holds of the empty table.
LEMMA InitInv == Init => IInv
<1> SUFFICES ASSUME Init PROVE IInv
  OBVIOUS
<1>1. DOMAIN blocks = {} /\ acked = {} /\ \A w \in Writers : writer[w].pc = "idle"
  BY DEF Init, IdleWriter
<1>2. DOMAIN blocks = 1..0 /\ Height = 0
  BY <1>1 DEF Height
<1>3. Gapless /\ ChainLinked /\ TimestampsOrdered /\ AckedStored /\ ViewOK
  BY <1>1, <1>2 DEF Gapless, ChainLinked, TimestampsOrdered, AckedStored, ViewOK
<1> QED BY <1>3, InitType DEF IInv

\* A step that leaves the table alone keeps every fact about the table.
LEMMA TableUntouched ==
    ASSUME IInv, UNCHANGED <<blocks, acked>>
    PROVE  /\ Height' = Height
           /\ \A n : HashAt(blocks', n) = HashAt(blocks, n)
           /\ Gapless' /\ ChainLinked' /\ TimestampsOrdered' /\ AckedStored'
<1>1. Height' = Height
  BY DEF Height
<1>2. \A n : HashAt(blocks', n) = HashAt(blocks, n)
  BY DEF HashAt
<1>3. Gapless'
  BY DEF IInv, Gapless
<1>4. ChainLinked'
  BY <1>1 DEF IInv, ChainLinked, HashAt
<1>5. TimestampsOrdered'
  BY DEF IInv, TimestampsOrdered
<1>6. AckedStored'
  BY DEF IInv, AckedStored
<1> QED BY <1>1, <1>2, <1>3, <1>4, <1>5, <1>6

\* An insert extends the chain: links, times, receipts and the views of the
\* other writers survive it.
LEMMA InsertKeepsChain ==
    ASSUME IInv, NEW w \in Writers, writer[w].pc = "commit", Unique(w),
           Insert(w), Return(w),
           \A a \in acked' : a \in acked
                            \/ a = [tx_hash |-> writer[w].tx_hash, event |-> writer[w].event]
    PROVE  Gapless' /\ ChainLinked' /\ TimestampsOrdered' /\ AckedStored' /\ ViewOK'
<1> DEFINE h == Height
<1>1. h \in Nat /\ DOMAIN blocks = 1..h
  BY HeightFacts
<1>2. /\ writer[w].number = h + 1
      /\ DOMAIN blocks' = 1..(h + 1)
      /\ Height' = h + 1
      /\ blocks'[h + 1] = NewRow(w)
      /\ \A n \in 1..h : blocks'[n] = blocks[n]
  BY InsertAtTop
<1>3. /\ writer[w].prev = HashAt(blocks, h)
      /\ writer[w].tx_hash = sha256_of(writer[w].prev, writer[w].event, IsoAware(writer[w].at))
      /\ \A n \in 1..h : blocks[n].at <= writer[w].at
  BY <1>1, <1>2 DEF IInv, ViewOK
<1>4. /\ \A n \in 0..h : HashAt(blocks', n) = HashAt(blocks, n)
  BY <1>1, <1>2 DEF HashAt
<1> HIDE DEF h
<1>5. Gapless'
  BY <1>1, <1>2 DEF Gapless
<1>6. ChainLinked'
  <2>1. DOMAIN blocks' = 1..Height'
    BY <1>2
  <2>2. ASSUME NEW n \in 1..h
        PROVE  /\ blocks'[n].prev_hash = HashAt(blocks', n - 1)
               /\ blocks'[n].tx_hash =
                     sha256_of(blocks'[n].prev_hash, blocks'[n].event, IsoAware(blocks'[n].at))
    <3>1. /\ blocks[n].prev_hash = HashAt(blocks, n - 1)
          /\ blocks[n].tx_hash =
                sha256_of(blocks[n].prev_hash, blocks[n].event, IsoAware(blocks[n].at))
      BY <1>1 DEF IInv, ChainLinked
    <3>2. HashAt(blocks', n - 1) = HashAt(blocks, n - 1)
      BY <1>1, <1>4
    <3> QED BY <3>1, <3>2, <1>2
  <2>3. /\ blocks'[h + 1].prev_hash = HashAt(blocks', h)
        /\ blocks'[h + 1].tx_hash =
              sha256_of(blocks'[h + 1].prev_hash, blocks'[h + 1].event,
                        IsoAware(blocks'[h + 1].at))
    BY <1>1, <1>2, <1>3, <1>4 DEF NewRow
  <2>4. ASSUME NEW n \in 1..(h + 1)
        PROVE  /\ blocks'[n].prev_hash = HashAt(blocks', n - 1)
               /\ blocks'[n].tx_hash =
                     sha256_of(blocks'[n].prev_hash, blocks'[n].event, IsoAware(blocks'[n].at))
    <3>1. CASE n \in 1..h
      BY <3>1, <2>2
    <3>2. CASE n = h + 1
      <4>1. n - 1 = h
        BY <3>2, <1>1
      <4> QED BY <3>2, <4>1, <2>3
    <3> QED BY <3>1, <3>2, <1>1
  <2> QED BY <1>2, <2>1, <2>4 DEF ChainLinked
<1>7. TimestampsOrdered'
  <2>1. ASSUME NEW n \in 1..(h + 1), NEW m \in 1..(h + 1), n <= m
        PROVE  blocks'[n].at <= blocks'[m].at
    <3>1. CASE m \in 1..h
      BY <3>1, <2>1, <1>1, <1>2 DEF IInv, TimestampsOrdered
    <3>2. CASE m = h + 1 /\ n \in 1..h
      BY <3>2, <1>1, <1>2, <1>3 DEF NewRow
    <3>3. CASE m = h + 1 /\ n = h + 1
      <4>1. writer[w].at \in Int
        BY DEF IInv, TypeOK
      <4> QED BY <3>3, <4>1, <1>2 DEF NewRow
    <3> QED BY <3>1, <3>2, <3>3, <2>1, <1>1
  <2> QED BY <2>1, <1>2 DEF TimestampsOrdered
<1>8. AckedStored'
  <2>1. ASSUME NEW a \in acked'
        PROVE  \E n \in DOMAIN blocks' :
                  blocks'[n].tx_hash = a.tx_hash /\ blocks'[n].event = a.event
    <3>1. CASE a \in acked
      <4>1. PICK n \in DOMAIN blocks :
               blocks[n].tx_hash = a.tx_hash /\ blocks[n].event = a.event
        BY <3>1 DEF IInv, AckedStored
      <4> QED BY <4>1, <1>1, <1>2
    <3>2. CASE a = [tx_hash |-> writer[w].tx_hash, event |-> writer[w].event]
      BY <3>2, <1>1, <1>2 DEF NewRow
    <3> QED BY <3>1, <3>2
  <2> QED BY <2>1 DEF AckedStored
<1>9. ViewOK'
  <2> SUFFICES ASSUME NEW v \in Writers
               PROVE  /\ writer'[v].pc \in {"stamp", "commit"} =>
                            /\ writer'[v].number \in 1..(Height' + 1)
                            /\ writer'[v].prev = HashAt(blocks', writer'[v].number - 1)
                      /\ writer'[v].pc = "commit" =>
                            /\ writer'[v].tx_hash =
                                  sha256_of(writer'[v].prev, writer'[v].event,
                                            IsoAware(writer'[v].at))
                            /\ \A n \in DOMAIN blocks' :
                                  n < writer'[v].number => blocks'[n].at <= writer'[v].at
    BY DEF ViewOK
  <2>1. CASE v = w
    BY <2>1 DEF Return, IdleWriter, IInv, TypeOK
  <2>2. CASE v # w
    <3>1. writer'[v] = writer[v]
      BY <2>2 DEF Return, IInv, TypeOK
    <3>2. writer[v].pc \in {"stamp", "commit"} =>
             /\ writer[v].number \in 1..(h + 1)
             /\ writer[v].prev = HashAt(blocks, writer[v].number - 1)
      BY DEF IInv, ViewOK, h
    <3>3. writer[v].pc = "commit" =>
             /\ writer[v].tx_hash =
                   sha256_of(writer[v].prev, writer[v].event, IsoAware(writer[v].at))
             /\ \A n \in 1..h : n < writer[v].number => blocks[n].at <= writer[v].at
      BY <1>1 DEF IInv, ViewOK
    <3> QED BY <3>1, <3>2, <3>3, <1>1, <1>2, <1>4
  <2> QED BY <2>1, <2>2
<1> QED BY <1>5, <1>6, <1>7, <1>8, <1>9

\* Every step preserves the invariant.
LEMMA NextInv ==
    ASSUME IInv, [Next]_vars
    PROVE  IInv'
<1>0. TypeOK' /\ TypeOK /\ ViewOK /\ Height \in Nat /\ DOMAIN blocks = 1..Height
  BY NextType, HeightFacts DEF IInv
\* A step that touches neither the table nor the receipts disturbs ViewOK alone,
\* and that only through the thread that moves.
<1>1. ASSUME UNCHANGED <<blocks, acked>>,
             \A v \in Writers :
                \/ writer'[v] = writer[v]
                \/ writer'[v].pc \notin {"stamp", "commit"}
      PROVE  IInv'
  <2>1. Height' = Height /\ Gapless' /\ ChainLinked' /\ TimestampsOrdered' /\ AckedStored'
    BY <1>1, TableUntouched
  <2>2. ViewOK'
    BY <1>0, <1>1, <2>1 DEF ViewOK
  <2> QED BY <1>0, <2>1, <2>2 DEF IInv
<1>2. ASSUME NEW w \in Writers, NEW e \in Events, AppendCall(w, e)
      PROVE  IInv'
  <2>1. \A v \in Writers : writer'[v] = writer[v] \/ writer'[v].pc \in {"primary", "read"}
    BY <1>0, <1>2 DEF AppendCall, TypeOK
  <2> QED BY <1>1, <1>2, <2>1 DEF AppendCall
<1>3. ASSUME NEW w \in Writers, PrimaryFails(w)
      PROVE  IInv'
  <2>1. \A v \in Writers : writer'[v] = writer[v] \/ writer'[v].pc = "read"
    BY <1>0, <1>3 DEF PrimaryFails, TypeOK
  <2> QED BY <1>1, <1>3, <2>1 DEF PrimaryFails
<1>4. ASSUME NEW w \in Writers, ReadLast(w)
      PROVE  IInv'
  <2>1. UNCHANGED <<blocks, acked>>
    BY <1>4 DEF ReadLast
  <2>2. Height' = Height /\ Gapless' /\ ChainLinked' /\ TimestampsOrdered' /\ AckedStored'
    BY <2>1, TableUntouched
  <2>3. \A v \in Writers :
           \/ writer'[v] = writer[v]
           \/ /\ writer'[v].pc = "stamp"
              /\ writer'[v].number = Height + 1
              /\ writer'[v].prev = HashAt(blocks, Height)
    BY <1>0, <1>4 DEF ReadLast, TypeOK
  <2>4. ViewOK'
    BY <1>0, <2>1, <2>2, <2>3 DEF ViewOK
  <2> QED BY <1>0, <2>2, <2>4 DEF IInv
<1>5. ASSUME NEW w \in Writers, Stamp(w)
      PROVE  IInv'
  <2>1. UNCHANGED <<blocks, acked>>
    BY <1>5 DEF Stamp
  <2>2. Height' = Height /\ Gapless' /\ ChainLinked' /\ TimestampsOrdered' /\ AckedStored'
    BY <2>1, TableUntouched
  <2>3. \A n \in DOMAIN blocks : blocks[n].at <= now
    BY <1>0 DEF TypeOK
  <2>4. ViewOK'
    BY <1>0, <1>5, <2>1, <2>2, <2>3 DEF ViewOK, Stamp, TypeOK
  <2> QED BY <1>0, <2>2, <2>4 DEF IInv
<1>6. ASSUME NEW w \in Writers, Commit(w)
      PROVE  IInv'
  BY <1>0, <1>6, InsertKeepsChain DEF Commit, IInv
<1>7. ASSUME NEW w \in Writers, CommitAckLost(w)
      PROVE  IInv'
  BY <1>0, <1>7, InsertKeepsChain DEF CommitAckLost, IInv
<1>8. ASSUME NEW w \in Writers, CommitConflict(w) \/ DatabaseError(w)
      PROVE  IInv'
  <2>1. UNCHANGED <<blocks, acked>> /\ Return(w)
    BY <1>8 DEF CommitConflict, DatabaseError
  <2>2. \A v \in Writers : writer'[v] = writer[v] \/ writer'[v].pc = "idle"
    BY <1>0, <2>1 DEF Return, IdleWriter, TypeOK
  <2> QED BY <1>1, <2>1, <2>2
<1>9. ASSUME NEW l \in Ledgers, Restart(l)
      PROVE  IInv'
  <2>1. \A v \in Writers : writer'[v] = writer[v] \/ writer'[v].pc = "idle"
    BY <1>9 DEF Restart, IdleWriter
  <2> QED BY <1>1, <1>9, <2>1 DEF Restart
<1>10. CASE Tick
  BY <1>1, <1>10 DEF Tick
<1>11. CASE UNCHANGED vars
  BY <1>1, <1>11 DEF vars
<1> QED
  BY <1>2, <1>3, <1>4, <1>5, <1>6, <1>7, <1>8, <1>9, <1>10, <1>11 DEF Next

-----------------------------------------------------------------------------
(* Theorems                                                                *)

\* The inductive invariant holds in every behaviour of the ledger.
THEOREM InductiveInvariant == Spec => []IInv
<1>1. IInv /\ [Next]_vars => IInv'
  BY NextInv
<1> QED BY InitInv, <1>1, PTL DEF Spec

\* Type correctness of the table and of every open append.
THEOREM TypeCorrect == Spec => []TypeOK
<1>1. IInv => TypeOK
  BY DEF IInv
<1> QED BY <1>1, InductiveInvariant, PTL

\* append() keeps blockchain_records one gapless, correctly linked chain with
\* any number of concurrent writers in any number of processes
\* (fabric_client.py:23-31).
THEOREM ChainStaysLinked == Spec => []ChainLinked
<1>1. IInv => ChainLinked
  BY DEF IInv
<1> QED BY <1>1, InductiveInvariant, PTL

\* No interleaving of stamps and commits puts an older time after a newer one.
THEOREM ChainStaysOrdered == Spec => []TimestampsOrdered
<1>1. IInv => TimestampsOrdered
  BY DEF IInv
<1> QED BY <1>1, InductiveInvariant, PTL

\* A hash that append() returned stays in the table with the caller's event.
THEOREM ReceiptsAreDurable == Spec => []AckedStored
<1>1. IInv => AckedStored
  BY DEF IInv
<1> QED BY <1>1, InductiveInvariant, PTL

-----------------------------------------------------------------------------
(* The ledger implements the audit log                                     *)

\* The empty table is an empty log.
LEMMA InitRefines == Init => Audit!Init
<1> SUFFICES ASSUME Init PROVE Audit!Init
  OBVIOUS
<1>1. Height = 0
  BY DEF Init, Height
<1>2. StoredLog = <<>>
  BY <1>1 DEF StoredLog
<1>3. AckedPositions = {}
  BY <1>1 DEF AckedPositions
<1>4. OpenRequests = [c \in Writers |-> NoEvent]
  BY DEF Init, OpenRequests, IdleWriter
<1> QED BY <1>2, <1>3, <1>4 DEF Audit!Init

\* What the audit log shows of the table changes only with the table.
LEMMA SameTableSameLog ==
    ASSUME UNCHANGED <<blocks, acked>>
    PROVE  UNCHANGED <<StoredLog, AckedPositions>>
<1>1. Height' = Height
  BY DEF Height
<1> QED BY <1>1 DEF StoredLog, AckedPositions

\* An insert appends the caller's event to the log.
LEMMA InsertAppends ==
    ASSUME IInv, NEW w \in Writers, writer[w].pc = "commit", Unique(w), Insert(w)
    PROVE  /\ StoredLog' = Append(StoredLog, writer[w].event)
           /\ Len(StoredLog) = Height
<1>1. Height \in Nat /\ DOMAIN blocks = 1..Height
  BY HeightFacts
<1>2. /\ Height' = Height + 1
      /\ blocks'[Height + 1] = NewRow(w)
      /\ \A n \in 1..Height : blocks'[n] = blocks[n]
  BY InsertAtTop
<1>3. StoredLog \in Seq(Events) /\ Len(StoredLog) = Height
  BY <1>1 DEF StoredLog, IInv, TypeOK
<1>4. StoredLog' = [n \in 1..(Height + 1) |-> blocks'[n].event]
  BY <1>2 DEF StoredLog
<1>5. blocks'[Height + 1].event = writer[w].event
  BY <1>2 DEF NewRow
<1>6. Append(StoredLog, writer[w].event) =
         [n \in 1..(Height + 1) |->
             IF n = Height + 1 THEN writer[w].event ELSE StoredLog[n]]
  BY <1>3
<1>7. \A n \in 1..Height : StoredLog[n] = blocks[n].event
  BY DEF StoredLog
<1> HIDE DEF StoredLog
<1>8. \A n \in 1..(Height + 1) :
         blocks'[n].event = IF n = Height + 1 THEN writer[w].event ELSE StoredLog[n]
  BY <1>1, <1>2, <1>5, <1>7
<1> QED BY <1>3, <1>4, <1>6, <1>8

\* The position of a new block is acknowledged exactly when its hash is; the
\* positions below it keep their standing.
LEMMA InsertAcks ==
    ASSUME IInv, NEW w \in Writers, writer[w].pc = "commit", Unique(w), Insert(w)
    PROVE  /\ acked' = acked => AckedPositions' = AckedPositions
           /\ acked' = acked \cup {[tx_hash |-> writer[w].tx_hash,
                                    event |-> writer[w].event]}
                 => AckedPositions' = AckedPositions \cup {Height + 1}
<1>1. Height \in Nat /\ DOMAIN blocks = 1..Height
  BY HeightFacts
<1>2. /\ Height' = Height + 1
      /\ blocks'[Height + 1].tx_hash = writer[w].tx_hash
      /\ \A n \in 1..Height : blocks'[n] = blocks[n]
  <2>1. /\ Height' = Height + 1
        /\ blocks'[Height + 1] = NewRow(w)
        /\ \A n \in 1..Height : blocks'[n] = blocks[n]
    BY InsertAtTop
  <2>2. NewRow(w).tx_hash = writer[w].tx_hash
    BY DEF NewRow
  <2> QED BY <2>1, <2>2
<1>3. \A n \in 1..Height : blocks[n].tx_hash # writer[w].tx_hash
  BY <1>1 DEF Unique
<1>4. \A a \in acked : a.tx_hash # writer[w].tx_hash
  BY <1>1, <1>3 DEF IInv, AckedStored
<1>5. AckedPositions' =
         {n \in 1..(Height + 1) : \E a \in acked' : a.tx_hash = blocks'[n].tx_hash}
  BY <1>2 DEF AckedPositions
<1>6. CASE acked' = acked
  <2>1. \A n \in 1..(Height + 1) :
           (\E a \in acked' : a.tx_hash = blocks'[n].tx_hash) <=>
           n \in 1..Height /\ \E a \in acked : a.tx_hash = blocks[n].tx_hash
    BY <1>1, <1>2, <1>4, <1>6
  <2>2. AckedPositions' = AckedPositions
    BY <2>1, <1>1, <1>5 DEF AckedPositions
  <2> DEFINE new == [tx_hash |-> writer[w].tx_hash, event |-> writer[w].event]
  <2>3. new.tx_hash = writer[w].tx_hash
    OBVIOUS
  <2>4. new \notin acked
    BY <2>3, <1>4
  <2>5. acked' # acked \cup {new}
    BY <2>4, <1>6
  <2> QED BY <2>2, <2>5
<1>7. CASE acked' = acked \cup {[tx_hash |-> writer[w].tx_hash, event |-> writer[w].event]}
  <2> DEFINE new == [tx_hash |-> writer[w].tx_hash, event |-> writer[w].event]
  <2>0. new.tx_hash = writer[w].tx_hash /\ acked' = acked \cup {new}
    BY <1>7
  <2> HIDE DEF new
  <2>1. \A n \in 1..(Height + 1) :
           (\E a \in acked' : a.tx_hash = blocks'[n].tx_hash) <=>
           \/ n = Height + 1
           \/ n \in 1..Height /\ \E a \in acked : a.tx_hash = blocks[n].tx_hash
    BY <1>1, <1>2, <1>3, <2>0
  <2>2. AckedPositions' = AckedPositions \cup {Height + 1}
    BY <2>1, <1>1, <1>5 DEF AckedPositions
  <2>3. acked' # acked
    BY <2>0, <1>4
  <2> QED BY <2>2, <2>3
<1> QED BY <1>6, <1>7

\* Every step of the ledger is a step of the audit log, or invisible in it.
LEMMA NextRefines ==
    ASSUME IInv, [Next]_vars
    PROVE  [Audit!Next]_(Audit!vars)
<1>0. TypeOK
  BY DEF IInv
<1>1. ASSUME UNCHANGED <<blocks, acked>>,
             \A v \in Writers : writer'[v].event = writer[v].event
      PROVE  UNCHANGED Audit!vars
  <2>1. UNCHANGED <<StoredLog, AckedPositions>>
    BY <1>1, SameTableSameLog
  <2>2. OpenRequests' = OpenRequests
    BY <1>1 DEF OpenRequests
  <2> QED BY <2>1, <2>2 DEF Audit!vars
<1>2. ASSUME NEW w \in Writers, NEW e \in Events, AppendCall(w, e)
      PROVE  Audit!Submit(w, e)
  <2>1. UNCHANGED <<StoredLog, AckedPositions>>
    BY <1>2, SameTableSameLog DEF AppendCall
  <2>2. OpenRequests[w] = NoEvent
    BY <1>0, <1>2 DEF AppendCall, TypeOK, OpenRequests
  <2>3. OpenRequests' = [OpenRequests EXCEPT ![w] = e]
    BY <1>0, <1>2 DEF AppendCall, TypeOK, OpenRequests
  <2> QED BY <2>1, <2>2, <2>3 DEF Audit!Submit
<1>3. ASSUME NEW w \in Writers, PrimaryFails(w) \/ ReadLast(w) \/ Stamp(w)
      PROVE  UNCHANGED Audit!vars
  <2>1. \A v \in Writers : writer'[v].event = writer[v].event
    BY <1>0, <1>3 DEF PrimaryFails, ReadLast, Stamp, TypeOK
  <2> QED BY <1>1, <1>3, <2>1 DEF PrimaryFails, ReadLast, Stamp
<1>4. ASSUME NEW w \in Writers, Return(w)
      PROVE  /\ OpenRequests' = [OpenRequests EXCEPT ![w] = NoEvent]
             /\ OpenRequests' = [c \in Writers |->
                                    IF c \in {w} THEN NoEvent ELSE OpenRequests[c]]
  BY <1>0, <1>4 DEF Return, IdleWriter, TypeOK, OpenRequests
<1>5. ASSUME NEW w \in Writers, writer[w].pc = "commit"
      PROVE  OpenRequests[w] # NoEvent /\ OpenRequests[w] = writer[w].event
  BY <1>0, <1>5, EventsAssumption DEF TypeOK, OpenRequests
<1>6. ASSUME NEW w \in Writers, Commit(w)
      PROVE  Audit!Accept(w)
  <2>1. StoredLog' = Append(StoredLog, writer[w].event) /\ Len(StoredLog) = Height
    BY <1>6, InsertAppends DEF Commit
  <2>2. AckedPositions' = AckedPositions \cup {Height + 1}
    BY <1>6, InsertAcks DEF Commit
  <2>3. Return(w) /\ writer[w].pc = "commit"
    BY <1>6 DEF Commit
  <2> QED BY <2>1, <2>2, <2>3, <1>4, <1>5 DEF Audit!Accept
<1>7. ASSUME NEW w \in Writers, CommitAckLost(w)
      PROVE  Audit!AcceptSilently(w)
  <2>1. StoredLog' = Append(StoredLog, writer[w].event)
    BY <1>7, InsertAppends DEF CommitAckLost
  <2>2. AckedPositions' = AckedPositions
    BY <1>7, InsertAcks DEF CommitAckLost
  <2>3. Return(w) /\ writer[w].pc = "commit"
    BY <1>7 DEF CommitAckLost
  <2> QED BY <2>1, <2>2, <2>3, <1>4, <1>5 DEF Audit!AcceptSilently
<1>8. ASSUME NEW w \in Writers, CommitConflict(w) \/ DatabaseError(w)
      PROVE  Audit!Refuse({w})
  <2>1. UNCHANGED <<StoredLog, AckedPositions>> /\ Return(w)
    BY <1>8, SameTableSameLog DEF CommitConflict, DatabaseError
  <2> QED BY <2>1, <1>4 DEF Audit!Refuse
<1>9. ASSUME NEW l \in Ledgers, Restart(l)
      PROVE  Audit!Refuse({w \in Writers : LedgerOf[w] = l})
  <2>1. UNCHANGED <<StoredLog, AckedPositions>>
    BY <1>9, SameTableSameLog DEF Restart
  <2>2. OpenRequests' = [c \in Writers |->
                           IF c \in {w \in Writers : LedgerOf[w] = l} THEN NoEvent
                           ELSE OpenRequests[c]]
    BY <1>9 DEF Restart, IdleWriter, OpenRequests
  <2> QED BY <2>1, <2>2 DEF Audit!Refuse
<1>10. CASE Tick
  BY <1>1, <1>10 DEF Tick
<1>11. CASE UNCHANGED vars
  BY <1>1, <1>11 DEF vars
<1> QED
  BY <1>2, <1>3, <1>6, <1>7, <1>8, <1>9, <1>10, <1>11 DEF Next, Audit!Next

\* The hash-chained table, seen through the audit log's variables, only ever
\* does what an append-only audit log may do.
THEOREM LedgerImplementsAuditLog == Spec => ImplementsAuditLog
<1>1. IInv /\ [Next]_vars => [Audit!Next]_(Audit!vars)
  BY NextRefines
<1> QED BY InitRefines, InductiveInvariant, <1>1, PTL DEF Spec, ImplementsAuditLog, Audit!Spec
=============================================================================
