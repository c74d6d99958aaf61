CONSTANTS
    MaxLoanId = 2
    RemoteIds = {1, 2, 3}
    MaxControls = 1
    BatchCapacity = 2
SPECIFICATION Spec
CONSTRAINTS ExchangeBound LentInOrder
INVARIANTS
    TypeOK
    LoanBook
    NoReuseBeforeConfirmation
    PublicationFindsOwner
    CountersExact
    ClosedIsQuiet
    ReservedStorageSuffices
    ReleaseOrder
    WriterOwnedByBatch
PROPERTY EndsAreFinal
