\* One transaction, with a retry, over two documents that it may read and write in
\* any order, and a write of another device (which stands for other transactions).
CONSTANTS
    Keys = {k1, k2}
    TxIds = {t1}
    Fields = {f}
    Vals = {a}
    NoDoc = NoDoc
    MaxRetries = 1
    MaxClock = 2
SYMMETRY StoreSymmetry
SPECIFICATION Spec
INVARIANTS
    IInv
    ReadsAreCurrent
    SuccessTookEffect
    AnswersMatchAttempt
PROPERTIES
    ImplementsAtomicStore
    OvertakenForGood
CHECK_DEADLOCK FALSE
