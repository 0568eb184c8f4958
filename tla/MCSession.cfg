SPECIFICATION Spec
CONSTANTS
    Sqls <- Strings
    Commands <- TxnCommands
    MaxTxns = 4
CHECK_DEADLOCK FALSE
INVARIANT OwnTxnFinished
INVARIANT NoTxnLost
PROPERTY FinishedForever
