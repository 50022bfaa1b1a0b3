SPECIFICATION Spec
CONSTANTS
    Workers = {w1, w2}
    Clients = {c1, c2}
    Jobs = {j1, j2}
    Configurations <- SmallOrBounded
    Unbounded = Unbounded
    Nobody = Nobody
    NoJob = NoJob
SYMMETRY Symmetry
INVARIANTS CountersMatchQueues NoJobLeftBehind WakeTokensAreLeft
PROPERTY ImplementsService
