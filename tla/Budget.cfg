\* Three processes, each with one photo at a time, under a ceiling of two calls,
\* over as many days as it takes for rows to be swept.
SPECIFICATION Spec
CONSTANTS
    Callers = {w1, w2, w3}
    Cap = 4
    MaxCost = 2
    MaxUnknown = 2
    KeepDays = 1
SYMMETRY Same
INVARIANTS
    RecordedBounded
    BilledBounded
CHECK_DEADLOCK FALSE
