SPECIFICATION FairSpec
CONSTANTS
    Tasks = {t1, t2, t3}
    Clients = {c1, c2}
INVARIANT TerminatedMeansSettled
PROPERTIES ImplementsService TerminationIsAnnounced
