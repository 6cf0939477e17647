SPECIFICATION Spec
CONSTANTS
    u1 = u1
    u2 = u2
    a1 = a1
    a2 = a2
    a3 = a3
    s1 = s1
    s2 = s2
    f1 = f1
    f2 = f2
    f3 = f3
    i1 = i1
    i2 = i2
    p1 = p1
    r1 = r1
    r2 = r2
    NoOne = NoOne
    Users = {u1}
    Accounts = {a1, a2}
    Sessions = {s1, s2}
    Flows = {f1, f2}
    Identities = {i1}
    Providers = {p1}
    Issuer <- MCIssuer
    Emails = {}
    Challenges = {}
    Operations = {"unlink_account"}
    Purposes = {"login", "register"}
    Requests = {r1, r2}
    StartAccounts = {1,2}
    MaxVersion = 2
    MaxConfig = 1
    MaxLoginAccounts = 3
SYMMETRY Symmetry
\* Once the versions and identifiers are used up nothing more can happen.
CHECK_DEADLOCK FALSE
PROPERTIES FlowsMoveForward UnlinkKeepsAccess LoginBound
