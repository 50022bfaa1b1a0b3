SPECIFICATION FairSpec
CONSTANTS
    Writers = {t1}
    Waiters = {t2, t3}
    Nobody = Nobody
    Timeouts = {0, 2}
    MaxTokens = 2
INVARIANT ReadyStateIsNoticed
PROPERTIES TimeoutIsKept TimedCallReturns
