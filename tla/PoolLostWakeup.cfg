SPECIFICATION TimedSpec
CONSTANTS
    Workers = {w1}
    Clients = {c1, c2}
    Jobs = {j1}
    QueueCapacity = Unbounded
    Unbounded = Unbounded
    CoreSizes = {1}
    MaxSizes = {1}
    WaitingClients = {c2}
    SpawnFailures = {}
    PanickingJobs = {}
    NoJob = NoJob
PROPERTY AcceptedJobFinishes
