SPECIFICATION Spec
CONSTANTS
    u1 = u1
    u2 = u2
    a1 = a1
    a2 = a2
    s1 = s1
    f1 = f1
    c1 = c1
    c2 = c2
    e1 = e1
    e2 = e2
    r1 = r1
    r2 = r2
    p1 = p1
    i1 = i1
    NoOne = NoOne
    Users = {u1, u2}
    Accounts = {a1, a2}
    Sessions = {s1}
    Flows = {f1}
    Identities = {i1}
    Providers = {p1}
    Issuer <- OneIssuer
    Emails = {e1, e2}
    Challenges = {c1, c2}
    Operations = {"change_email"}
    Purposes = {}
    Requests = {r1, r2}
    StartAccounts = {}
    MaxVersion = 3
    MaxConfig = 1
    MaxLoginAccounts = 2
\* Once the versions and identifiers are used up nothing more can happen.
CHECK_DEADLOCK FALSE
SYMMETRY Symmetry
INVARIANTS AddressesConfirmed
PROPERTIES AddressMoves
