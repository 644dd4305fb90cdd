\* Three requests of any kinds, one reset link, two passwords, two secrets.
SPECIFICATION Spec
CONSTANTS
    Requests = {r1, r2, r3}
    Passwords = {old, new}
    Secrets = {s1, s2}
    Links = {l1}
    Device = Device
    None = None
SYMMETRY Same
INVARIANTS
    ChangeEndsSessions
    ResetOnce
PROPERTIES
    SignInIsProven
    PasswordIsAuthorised
    SecretIsAuthorised
CHECK_DEADLOCK FALSE
