\* Three calls; three I/O errors, two process crashes and two power cuts among them.
CONSTANTS
    Txn = {t1, t2, t3}
    NoTxn = NoTxn
    Attempts = 2
    MaxFaults = 3
    MaxCrashes = 2
    MaxPowerCuts = 2
SPECIFICATION Spec
INVARIANTS
    TypeOK
    AcknowledgedSurvive
    SettledSurvive
    RejectedStayOut
    UnreadableOnlyWhenEmpty
PROPERTY ImplementsAtomicStore
SYMMETRY TxnSymmetry
CHECK_DEADLOCK FALSE
