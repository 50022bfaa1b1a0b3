SPECIFICATION FairSpec
CONSTANTS
    Tasks = {t1, t2}
    Clients = {c1, c2}
    Nobody = Nobody
INVARIANT CountsAreTrue
PROPERTIES ShutdownNowLeavesNoneQueued ImplementsService TerminationIsAnnounced
