\* The same uploads, held to what the comment in upload_estimate says.
SPECIFICATION Spec
CONSTANTS
    r1 = r1
    r2 = r2
    r3 = r3
    r4 = r4
    ann = ann
    bob = bob
    Requests <- AllRequests
    Owners = {ann, bob}
    OwnerOf <- AnnsAndBobs
    MAX_PER_USER = 2
    PoolSize = 2
INVARIANTS
    CardHasFile
CHECK_DEADLOCK FALSE
