\* Verification of appended blocks, as tests/test_api.py expects it.
SPECIFICATION Spec
CONSTANTS
    w1 = w1
    w2 = w2
    w3 = w3
    local = local
    fabric = fabric
    e1 = e1
    e2 = e2
    NoEvent = NoEvent
    Writers <- MCWriters
    Ledgers <- MCLedgers
    LedgerOf <- MCLedgerOf
    RemoteLedgers <- MCRemoteLedgers
    Events <- MCEvents
    MaxBlocks = 1
    MaxTime = 1
INVARIANT AppendedBlocksVerify
