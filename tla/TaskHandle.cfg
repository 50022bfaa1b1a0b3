SPECIFICATION FairSpec
CONSTANTS
    Runners = {r1}
    Cancellers = {c1, c2}
    Outcomes = {"returns", "fails", "panics"}
INVARIANTS CancelledNeverRuns SleepingOwnerIsWoken
PROPERTIES ResultIsFinal OwnerGetsResult
