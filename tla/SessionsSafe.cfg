\* Two requests at a time on up to four tokens.
SPECIFICATION Observed
CONSTANTS
    Tokens = {t1, t2, t3, t4}
    Requests = {p1, p2}
    Nobody = Nobody
SYMMETRY Same
INVARIANTS
    OneTokenPerSession
PROPERTIES
    CurrentIsSpared
    EndsWhatStands
CHECK_DEADLOCK FALSE
