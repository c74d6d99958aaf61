CONSTANTS
    Calls <- MC_Calls
    LocalCalls = {"l"}
    Routes = {"route"}
    Exec = "exec"
    RouteOf <- MC_Route
    Access <- MC_Access
    Mode <- MC_Mode
    MaxPending <- MC_Pending
    MaxWorkers <- MC_Workers
    MaxGeneration = 1
CHECK_DEADLOCK FALSE
SPECIFICATION SafetySpec
INVARIANTS
    CountersMatchHolders
    
    NoOvertaking
    DrainedRouteIsSilent
PROPERTY DrainKeepsAcceptedWork
