SPECIFICATION Spec
CONSTANTS
    Workers = {w1, w2, w3}
    Clients = {c1, c2}
    Jobs = {j1, j2, j3}
    QueueCapacity = 1
    Unbounded = Unbounded
    CoreSizes = {0, 2}
    MaxSizes = {2, 3}
    WaitingClients = {}
    SpawnFailures = {"submit"}
    PanickingJobs = {}
    NoJob = NoJob
SYMMETRY Symmetry
INVARIANTS CountersMatchThreads JobInOnePlace StatsMatchFates QueuedJobIsNoticed UntimedWaitersAreCore
PROPERTY WorkersStayWithinSizes
