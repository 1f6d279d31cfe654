CONSTANTS
    p1 = p1
    p2 = p2
    Procs <- MCProcs
    MaxTx = 2
    Modes <- MCModesAdding
    NoProc = NoProc
SPECIFICATION Spec
INVARIANTS
    NoAqoInsertError
