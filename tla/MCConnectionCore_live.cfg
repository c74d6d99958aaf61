CONSTANTS
    MaxLoanId = 1
    RemoteIds = {1}
    MaxControls = 1
    BatchCapacity = 1
SPECIFICATION FairSpec
PROPERTY QuietConnectionCloses
