\* A request that ends all sessions while one of them is being refreshed.
SPECIFICATION Observed
CONSTANTS
    Tokens = {t1, t2, t3}
    Requests = {p1, p2}
    Nobody = Nobody
PROPERTIES
    RevokeAllEndsAll
CHECK_DEADLOCK FALSE
