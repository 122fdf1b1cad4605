SPECIFICATION Spec
CONSTANTS
    o1 = o1
    o2 = o2
    o3 = o3
    u1 = u1
    NoOrder = NoOrder
    NoPayment = NoPayment
    NoUser = NoUser
    Orders = {o1}
    Users = {u1}
    Payments = {p1}
    Tasks = {t1, t2}
    UserOf <- GuestOrders
    Amount <- Amounts
    Used <- UsedByNone
    Named = {o1}
    Signed = TRUE
    PollAttempts = 1
    MaxDuplicates = 1
    MaxFailures = 0
    SingleCheckout = TRUE
    ExactlyOnce = FALSE
INVARIANT BonusAccruedOnce
CHECK_DEADLOCK FALSE
