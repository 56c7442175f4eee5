CONSTANTS
    Inputs <- MCInputs
    Nums <- MCNums
SPECIFICATION Spec
INVARIANTS ParseMatchesReference ClockMatchesReference FormatRoundTrip AddIntervalMatchesReference
CHECK_DEADLOCK FALSE
