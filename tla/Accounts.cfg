\* Two workers, three accounts with three names and two passwords, two numbers for
\* sessions.
SPECIFICATION Spec
CONSTANTS
    Workers = {w1, w2}
    Names = {a, b, c}
    Passwords = {p, q}
    MaxAccounts = 3
    Sessions = {s, t}
    NULL = NULL
SYMMETRY Symmetry
INVARIANTS
    TypeOK
    OneAccountPerName
    SessionIsVerified
PROPERTY
    RenamedByOwner
