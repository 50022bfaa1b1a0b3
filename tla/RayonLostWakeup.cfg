SPECIFICATION FairSpec
CONSTANTS
    Tasks = {t1}
    Clients = {c1, c2}
    Nobody = Nobody
PROPERTY AwaitTerminationReturns
