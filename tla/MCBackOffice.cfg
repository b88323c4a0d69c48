SPECIFICATION OfficeSpec
CONSTANTS
    payer = payer
    referrer = referrer
    c1 = c1
    c2 = c2
    t1 = t1
    t2 = t2
    p1 = p1
    r1 = r1
    r2 = r2
    o1 = o1
    o2 = o2
    token = token
    q1 = q1
    Client = {c1, c2}
    Payer = payer
    Referrer = referrer
    MaxOrders = 2
    MaxGrants = 1
    Tx = {t1, t2}
    NoTx = NoTx
    Days = 1
    RewardDays = 1
    TrialDays = 1
    Window = 1
    Grace = 1
    Password = {p1}
    Challenge = {r1, r2}
    Otp = {o1, o2}
    Session = {token}
    NoPassword = NoPassword
    MaxAttempts = 2
    MaxRequests = 1
    Trade = {q1}
    Request = {"first", "again", "second"}
    ResetId <- MCResetId
INVARIANTS BillingSafe AccountsAreSound StatsSafe
PROPERTIES SlotReleased
CHECK_DEADLOCK FALSE
