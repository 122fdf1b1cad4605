SPECIFICATION FairSpec
CONSTANTS
    o1 = o1
    o2 = o2
    o3 = o3
    u1 = u1
    NoOrder = NoOrder
    NoPayment = NoPayment
    NoUser = NoUser
    Orders = {o1, o3}
    Users = {u1}
    Payments = {p1}
    Tasks = {t1, t2}
    UserOf <- GuestOrders
    Amount <- Amounts
    Used <- UsedByAll
    Named = {o1, o3}
    Signed = TRUE
    PollAttempts = 2
    MaxDuplicates = 2
    MaxFailures = 1
    SingleCheckout = TRUE
    ExactlyOnce = FALSE
INVARIANT RefundsCounted
PROPERTY ImplementsContract
PROPERTY ChargeIsRecorded
PROPERTY BonusOnceIfSerial
CHECK_DEADLOCK FALSE
