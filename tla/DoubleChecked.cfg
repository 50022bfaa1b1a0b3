SPECIFICATION DCSpec
CONSTANTS
    Callers = {a, b, c}
    NoCaller = NoCaller
INVARIANTS OneSuccess PrepareIsFinalized ResultTellsOutcome
