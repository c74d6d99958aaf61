SPECIFICATION Spec
CONSTANTS
    Names = {"n", "m"}
    Routes <- MC_Routes
    NameOf <- MC_NameOf
    Calls = {"c"}
    Removals = {"u1", "u2"}
    Scenes <- MC_Scenes
    MAX_ROUTES = 1
INVARIANTS
    TypeOK
    OpenMeansRegistered
    PendingIsExact
    QuietWhenStopped
    AcceptedCallsServed
PROPERTIES
    OpensUnderItsGeneration
    
