SPECIFICATION FairSpec
CONSTANTS
    r1 = r1
    r2 = r2
    spender = spender
    stale = stale
    i1 = i1
    i2 = i2
    u1 = u1
    NoRequest = NoRequest
    Requests = {r1, r2, spender}
    Ingredients = {i1, i2}
    Users = {u1}
    Tasks = {t1, t2}
    Lines <- Recipes
    Total <- Totals
    Points <- PointsOf
    UserOf <- OneUser
    Valid <- Priced
    Stock0 <- Stocked
    Balance <- Poor
    MaxSends = 2
    MaxRestocks = 1
    MaxFailures = 1
INVARIANT TypeOK
INVARIANT StockConserved
INVARIANT OversellBounded
PROPERTY NoOversellIfSerial
PROPERTY HandlersFinish
CHECK_DEADLOCK FALSE
