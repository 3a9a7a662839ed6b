SPECIFICATION Spec
CONSTANTS
    None = None
    Server = Server
    c1 = c1
    c2 = c2
    c3 = c3
    r1 = r1
    r2 = r2
    k1 = k1
    k2 = k2
    admin = admin
    alice = alice
    pw1 = pw1
    pw2 = pw2
    x = x
    y = y
    z = z
    Conns = {c1, c2, c3}
    Requests = {r1, r2}
    Settings <- MCSettings
    Users = {admin, alice}
    Passwords = {pw1, pw2}
    Admin = admin
    AdminPassword = pw1
    Registrations <- MCRegistrations
    Items <- MCItems
    Inputs <- MCInputs
    MaxIdle = 1
    MaxStarts = 2
    MaxRows = 2
    MaxSales = 1
SYMMETRY Interchangeable
INVARIANTS
    LostPerLogin
    RefusedOnlyIfLost
    LoginMeansAccount
    CreateMeansBought
    UpMeansUsable
CHECK_DEADLOCK FALSE
