----------------------------- MODULE HashChain ------------------------------
(***************************************************************************)
(* The hash-chained audit ledger of backend/app/blockchain: threads of     *)
(* several processes call record_event(), each through the ResilientLedger *)
(* of its process, and all of them append to the one table                 *)
(* blockchain_records.  LocalHashChainLedger.append takes no lock: it      *)
(* reads the last block, stamps and hashes the new one, and inserts it.    *)
(* Only the UNIQUE columns of the table arbitrate between two writers.     *)
(***************************************************************************)
EXTENDS Integers, FiniteSets

CONSTANTS Writers,        \* threads that record events
          Ledgers,        \* the ResilientLedger objects, one per process
          LedgerOf,       \* the ledger each thread uses
          RemoteLedgers,  \* those whose primary is Fabric or Ethereum
          Events,         \* event_type and payload of a record
          NoEvent,        \* "no append is under way"
          MaxBlocks,      \* bound: no block beyond this number is stored
          MaxTime         \* bound: the clock stops here

ASSUME LedgersAssumption ==
    /\ LedgerOf \in [Writers -> Ledgers]
    /\ RemoteLedgers \subseteq Ledgers

ASSUME EventsAssumption == NoEvent \notin Events

ASSUME BoundsAssumption == MaxBlocks \in Nat /\ MaxTime \in Nat

VARIABLES blocks,     \* blockchain_records: block_number -> the row stored
          now,        \* utcnow()
          degraded,   \* ResilientLedger.degraded of each ledger
          writer,     \* the local variables of each thread inside append
          acked       \* the hashes append returned, with the event they stand for

vars == <<blocks, now, degraded, writer, acked>>

-----------------------------------------------------------------------------
(* Hashes.  SHA-256 is a constructor: equal hashes have equal inputs.  The *)
(* timestamp enters the hash as isoformat() prints it, zone included.      *)

GENESIS_HASH == <<"genesis">>

sha256_of(prev, event, timestamp) == <<"sha256", prev, event, timestamp>>

\* utcnow() is an aware datetime: isoformat() ends in +00:00.
IsoAware(at) == <<at, "+00:00">>

\* The column is a DateTime without time zone: a row that is loaded has a
\* naive timestamp, and isoformat() prints no offset.
IsoLoaded(row) == <<row.at, "">>

-----------------------------------------------------------------------------
PCs == {"idle", "primary", "read", "stamp", "commit"}

\* A thread's locals appear in its record as append assigns them.
IdleWriter == [pc |-> "idle", event |-> NoEvent]

\* ORDER BY block_number DESC, first row; 0 stands for "no row".
Height ==
    IF DOMAIN blocks = {} THEN 0
    ELSE CHOOSE n \in DOMAIN blocks : \A m \in DOMAIN blocks : m <= n

HashAt(table, n) == IF n \in DOMAIN table THEN table[n].tx_hash ELSE GENESIS_HASH

Init ==
    /\ blocks = [n \in {} |-> 0]
    /\ now = 0
    /\ degraded = [l \in Ledgers |-> l \notin RemoteLedgers]
    /\ writer = [w \in Writers |-> IdleWriter]
    /\ acked = {}

\* Faulty variant of Return: the thread is idle but still holds its event.
ReturnHoldingEvent(w) ==
    writer' = [writer EXCEPT ![w] = [pc |-> "idle", event |-> writer[w].event]]

\* append is over for this thread, whatever its outcome.
Return(w) == writer' = [writer EXCEPT ![w] = IdleWriter]

-----------------------------------------------------------------------------
(* ResilientLedger.append                                                  *)

\* record_event() enters the ledger.
AppendCall(w, e) ==
    /\ writer[w].pc = "idle"
    /\ writer' = [writer EXCEPT ![w] =
          [pc |-> IF LedgerOf[w] \in RemoteLedgers THEN "primary" ELSE "read",
           event |-> e]]
    /\ UNCHANGED <<blocks, now, degraded, acked>>

\* FabricLedger.append and EthereumLedger.append only raise.
PrimaryFails(w) ==
    /\ writer[w].pc = "primary"
    /\ degraded' = [degraded EXCEPT ![LedgerOf[w]] = TRUE]
    /\ writer' = [writer EXCEPT ![w] = [pc |-> "read", event |-> writer[w].event]]
    /\ UNCHANGED <<blocks, now, acked>>

-----------------------------------------------------------------------------
(* LocalHashChainLedger.append                                             *)

\* Faulty variant of ReadLast: prev = last.prev_hash.
ReadLastPrevHash(w) ==
    /\ writer[w].pc = "read"
    /\ writer' = [writer EXCEPT ![w] =
          [pc |-> "stamp", event |-> writer[w].event, number |-> Height + 1,
           prev |-> IF Height = 0 THEN GENESIS_HASH ELSE blocks[Height].prev_hash]]
    /\ UNCHANGED <<blocks, now, degraded, acked>>

ReadLast(w) ==
    /\ writer[w].pc = "read"
    /\ writer' = [writer EXCEPT ![w] =
          [pc |-> "stamp", event |-> writer[w].event,
           number |-> Height + 1, prev |-> HashAt(blocks, Height)]]
    /\ UNCHANGED <<blocks, now, degraded, acked>>

Stamp(w) ==
    /\ writer[w].pc = "stamp"
    /\ writer' = [writer EXCEPT ![w] =
          [pc |-> "commit", event |-> writer[w].event,
           number |-> writer[w].number, prev |-> writer[w].prev, at |-> now,
           tx_hash |-> sha256_of(writer[w].prev, writer[w].event, IsoAware(now))]]
    /\ UNCHANGED <<blocks, now, degraded, acked>>

NewRow(w) ==
    [tx_hash |-> writer[w].tx_hash, prev_hash |-> writer[w].prev,
     event |-> writer[w].event, at |-> writer[w].at]

\* Faulty variant of Unique: block_number is an ordinary key, and an upsert.
UniqueHashOnly(w) == \A n \in DOMAIN blocks : blocks[n].tx_hash # writer[w].tx_hash

\* UNIQUE(block_number) and UNIQUE(tx_hash).
Unique(w) ==
    /\ writer[w].number \notin DOMAIN blocks
    /\ \A n \in DOMAIN blocks : blocks[n].tx_hash # writer[w].tx_hash

Insert(w) ==
    blocks' = [n \in DOMAIN blocks \cup {writer[w].number} |->
                  IF n = writer[w].number THEN NewRow(w) ELSE blocks[n]]

\* The INSERT is committed and append returns the hash.
Commit(w) ==
    /\ writer[w].pc = "commit"
    /\ Unique(w)
    /\ writer[w].number <= MaxBlocks
    /\ Insert(w)
    /\ acked' = acked \cup {[tx_hash |-> writer[w].tx_hash, event |-> writer[w].event]}
    /\ Return(w)
    /\ UNCHANGED <<now, degraded>>

\* Faulty variant of CommitAckLost: append is retried when its commit raises.
CommitAckLostRetried(w) ==
    /\ writer[w].pc = "commit"
    /\ Unique(w)
    /\ writer[w].number <= MaxBlocks
    /\ Insert(w)
    /\ writer' = [writer EXCEPT ![w] = [pc |-> "read", event |-> writer[w].event]]
    /\ UNCHANGED <<now, degraded, acked>>

\* The INSERT is committed but the connection breaks before the answer:
\* commit() raises and record_event() returns None.
CommitAckLost(w) ==
    /\ writer[w].pc = "commit"
    /\ Unique(w)
    /\ writer[w].number <= MaxBlocks
    /\ Insert(w)
    /\ Return(w)
    /\ UNCHANGED <<now, degraded, acked>>

\* Another writer took the number: IntegrityError, which record_event() swallows.
CommitConflict(w) ==
    /\ writer[w].pc = "commit"
    /\ ~Unique(w)
    /\ Return(w)
    /\ UNCHANGED <<blocks, now, degraded, acked>>

\* Faulty variant of DatabaseError: the hash is returned from a handler.
DatabaseErrorAcked(w) ==
    /\ writer[w].pc = "commit"
    /\ acked' = acked \cup {[tx_hash |-> writer[w].tx_hash, event |-> writer[w].event]}
    /\ Return(w)
    /\ UNCHANGED <<blocks, now, degraded>>

\* The database refuses the query or the commit: record_event() returns None.
DatabaseError(w) ==
    /\ writer[w].pc \in {"read", "commit"}
    /\ Return(w)
    /\ UNCHANGED <<blocks, now, degraded, acked>>

-----------------------------------------------------------------------------
\* A process dies and comes back: its threads are gone and get_ledger()
\* builds a new ResilientLedger.
Restart(l) ==
    /\ writer' = [w \in Writers |-> IF LedgerOf[w] = l THEN IdleWriter ELSE writer[w]]
    /\ degraded' = [degraded EXCEPT ![l] = l \notin RemoteLedgers]
    /\ UNCHANGED <<blocks, now, acked>>

Tick ==
    /\ now < MaxTime
    /\ now' = now + 1
    /\ UNCHANGED <<blocks, degraded, writer, acked>>

Next ==
    \/ \E w \in Writers :
          \/ \E e \in Events : AppendCall(w, e)
          \/ PrimaryFails(w)
          \/ ReadLast(w)
          \/ Stamp(w)
          \/ Commit(w)
          \/ CommitAckLost(w)
          \/ CommitConflict(w)
          \/ DatabaseError(w)
    \/ \E l \in Ledgers : Restart(l)
    \/ Tick

Spec == Init /\ [][Next]_vars

-----------------------------------------------------------------------------
(* verify and verify_chain, as GET /api/blockchain/verify runs them: on a  *)
(* session of their own, so on rows loaded from the table.                 *)

Recomputed(row) == sha256_of(row.prev_hash, row.event, IsoLoaded(row))

\* The block numbers below n, the largest of which is the previous row's.
PrevOf(n) ==
    LET below == {m \in DOMAIN blocks : m < n}
    IN  IF below = {} THEN GENESIS_HASH
        ELSE blocks[CHOOSE m \in below : \A k \in below : k <= m].tx_hash

Broken == {n \in DOMAIN blocks : \/ blocks[n].prev_hash # PrevOf(n)
                                 \/ Recomputed(blocks[n]) # blocks[n].tx_hash}

verify_chain ==
    IF Broken = {}
    THEN [valid |-> TRUE, checked |-> Cardinality(DOMAIN blocks)]
    ELSE LET first == CHOOSE n \in Broken : \A m \in Broken : n <= m
         IN  [valid |-> FALSE, broken_at_block |-> first,
              checked |-> Cardinality({n \in DOMAIN blocks : n <= first})]

verify(tx_hash) ==
    LET rows == {n \in DOMAIN blocks : blocks[n].tx_hash = tx_hash}
    IN  IF rows = {} THEN [valid |-> FALSE, reason |-> "not_found"]
        ELSE LET n == CHOOSE n \in rows : TRUE
             IN  [valid |-> Recomputed(blocks[n]) = tx_hash, block_number |-> n]

-----------------------------------------------------------------------------
(* Properties                                                              *)

\* The type invariant; no timestamp is later than the clock.
TypeOK ==
    /\ DOMAIN blocks \subseteq 1..MaxBlocks
    /\ \A n \in DOMAIN blocks : blocks[n].event \in Events /\ blocks[n].at \in 0..now
    /\ now \in 0..MaxTime
    /\ degraded \in [Ledgers -> BOOLEAN]
    /\ DOMAIN writer = Writers
    /\ \A w \in Writers :
          /\ writer[w].pc \in PCs
          /\ writer[w].event \in (IF writer[w].pc = "idle" THEN {NoEvent} ELSE Events)
          /\ writer[w].pc \in {"stamp", "commit"} => writer[w].number \in Nat \ {0}
          /\ writer[w].pc = "commit" => writer[w].at \in 0..now

\* However the writers interleave and whatever fails, the table holds one
\* gapless chain: blocks 1..Height, each naming the hash of the block below
\* it, each hash the digest of its own row (fabric_client.py:23-31, 40-48).
ChainLinked ==
    /\ DOMAIN blocks = 1..Height
    /\ \A n \in DOMAIN blocks :
          /\ blocks[n].prev_hash = HashAt(blocks, n - 1)
          /\ blocks[n].tx_hash =
                sha256_of(blocks[n].prev_hash, blocks[n].event, IsoAware(blocks[n].at))

\* The blocks carry timestamps in chain order: a writer that stamped early
\* and commits late cannot slip an older time behind a newer block, because
\* it read its predecessor before it stamped (fabric_client.py:24-27).
TimestampsOrdered ==
    \A n, m \in DOMAIN blocks : n <= m => blocks[n].at <= blocks[m].at

\* A hash that append returned names a stored block with the caller's event,
\* after every later conflict, error and restart (fabric_client.py:29-31).
AckedStored ==
    \A a \in acked :
        \E n \in DOMAIN blocks :
            blocks[n].tx_hash = a.tx_hash /\ blocks[n].event = a.event

\* The ledger implements the audit log: blocks are never rewritten, removed
\* or reordered, and one append stores at most the one event it was given.
StoredLog == [n \in 1..Height |-> blocks[n].event]
OpenRequests == [w \in Writers |-> writer[w].event]
AckedPositions == {n \in 1..Height : \E a \in acked : a.tx_hash = blocks[n].tx_hash}

Audit == INSTANCE AuditLog
            WITH Clients <- Writers, log <- StoredLog,
                 request <- OpenRequests, acked <- AckedPositions

ImplementsAuditLog == Audit!Spec

\* tests/test_api.py:230-235 append a block, and expect verify and
\* verify_chain to call it valid.
AppendedBlocksVerify ==
    /\ verify_chain.valid
    /\ \A a \in acked : verify(a.tx_hash).valid
=============================================================================
