SPECIFICATION FairSpec
CONSTANTS
    Workers = {w1, w2}
    Clients = {c1, c2}
    Jobs = {j1, j2}
    QueueCapacity = 1
    Unbounded = Unbounded
    CoreSizes = {0, 2}
    MaxSizes = {1, 2}
    WaitingClients = {c2}
    SpawnFailures = {"submit", "prestart"}
    PanickingJobs = {j1}
    NoJob = NoJob
INVARIANTS NobodySleepsThroughShutdown TerminatedLeavesOnlyDrained
PROPERTIES AcceptedJobIsServed ExcessWorkersRetire TerminationIsAnnounced ImplementsService
