\* Three writers race on a table of up to three blocks.
SPECIFICATION Spec
CONSTANTS
    w1 = w1
    w2 = w2
    w3 = w3
    local = local
    fabric = fabric
    e1 = e1
    e2 = e2
    NoEvent = NoEvent
    Writers <- MCWriters
    Ledgers <- MCLedgers
    LedgerOf <- MCLedgerOf
    RemoteLedgers <- MCRemoteLedgers
    Events <- MCEvents
    MaxBlocks = 2
    MaxTime = 1
SYMMETRY MCSymmetry
INVARIANTS TypeOK ChainLinked TimestampsOrdered AckedStored
PROPERTY ImplementsAuditLog
