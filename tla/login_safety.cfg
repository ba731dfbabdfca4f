SPECIFICATION LoginSpec
CONSTANTS
    Requests = {r1, r2, r3, r4, r5}
    Passwords = {p1, p2}
    NoPassword = NoPassword
    NoLink = NoLink
SYMMETRY Interchangeable
INVARIANTS PasswordIsChosen  
CHECK_DEADLOCK FALSE
