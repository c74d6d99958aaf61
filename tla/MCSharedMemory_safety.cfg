CONSTANTS
    HandleIds = {h1, h2, h3}
    Levels = 2
    min_block = 1
    max_segments = 2
    max_dedicated_segments = 1
    min_retained_segments = 1
    PageSize = 2
    ShmLimit = 10
    FileLimit = 5
    spill_threshold = 5
    MaxGeneration = 2
    Scenes <- MCScenes
SPECIFICATION Spec
SYMMETRY Symmetry
INVARIANTS
    HandlesBacked
    BlocksPartition
    BudgetExact
    DescriptorsAdmissible
    ReadsSeeTheLoan
    ReadsCounted
PROPERTIES
    GenerationsAdvance
