SPECIFICATION FairSpec
CONSTANTS
    Tasks = {t1, t2}
    Clients = {c1, c2}
    Nobody = Nobody
INVARIANTS UnabortedTaskIsTracked TerminatedMeansSettled
PROPERTIES ImplementsService TerminationIsAnnounced
