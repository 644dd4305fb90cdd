\* A visitor who keeps signing in beside one other handler; two addresses, two
\* links, one statement that fails.
SPECIFICATION Spec
CONSTANTS
    Requests = {r1}
    Visitor = Visitor
    Users = {Owner, u1, u2}
    Owner = Owner
    Addresses = {a1, a2}
    Synthetic = Synthetic
    Links = {l1, l2}
    MaxBreaks = 1
    None = None
INVARIANTS
    VerifiedIsReached
PROPERTIES
    BoundByAddress
    SignInWorks
    OldAddressIsTold
CHECK_DEADLOCK FALSE
