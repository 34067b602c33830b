SPECIFICATION Spec
CONSTANTS
    u1 = u1
    r1 = r1
    r2 = r2
    old = old
    o1 = o1
    User = {u1}
    Request = {r1, r2}
    Earlier = old
    Attempts = 1
    Operator = {o1}
    MaxPassword = 2
    Limit <- TwoEach
    None = None
INVARIANTS
    SessionsMatchAccounts
    WindowsAreBounded
    CookieIsDropped
