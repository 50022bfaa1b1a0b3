SPECIFICATION FairSpec
CHECK_DEADLOCK FALSE
CONSTANTS
    Tasks = {t1}
    Clients = {c1, c2}
    AloneCalls = {"shutdown", "shutdown_now"}
INVARIANT TerminationIsTrue
PROPERTIES NothingAcceptedAfterShutdown AwaitTerminationReturns
