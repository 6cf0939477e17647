\* A service at rest has nothing to do: with every user disabled no request succeeds.
CHECK_DEADLOCK FALSE
SPECIFICATION Spec
CONSTANTS
    u1 = u1
    u2 = u2
    e1 = e1
    e2 = e2
    a1 = a1
    a2 = a2
    s1 = s1
    s2 = s2
    c1 = c1
    c2 = c2
    p1 = p1
    p2 = p2
    r1 = r1
    r2 = r2
    NoOne = NoOne
    Users = {u1, u2}
    Emails = {e1, e2}
    Accounts = {a1, a2}
    Sessions = {s1, s2}
    Challenges = {c1, c2}
    Passwords = {p1, p2}
    Requests = {r1, r2}
    MaxVersion = 3
SYMMETRY Symmetry
INVARIANTS
    TypeOK
    SessionsMatchPassword
    OneCredential
PROPERTIES
    PasswordChangeAuthorised
    ChallengesNeverRevive
    ChangesCutOff
    ImplementsAuthority
