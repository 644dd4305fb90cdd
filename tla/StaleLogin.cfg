\* A login and a change of the password are enough.
SPECIFICATION Spec
CONSTANTS
    Requests = {r1, r2}
    Passwords = {old, new}
    Secrets = {s1, s2}
    Links = {l1}
    Device = Device
    None = None
SYMMETRY Same
PROPERTIES
    OldPasswordOpensNothing
CHECK_DEADLOCK FALSE
