SPECIFICATION Spec
CONSTANTS
    o1 = o1
    o2 = o2
    o3 = o3
    u1 = u1
    NoOrder = NoOrder
    NoPayment = NoPayment
    NoUser = NoUser
    Orders = {o1, o2, o3}
    Users = {u1}
    Payments = {p1, p2}
    Tasks = {t1, t2}
    UserOf <- GuestOrders
    Amount <- Amounts
    Used <- UsedByGuests
    Named = {o1, o2, o3}
    Signed = TRUE
    PollAttempts = 1
    MaxDuplicates = 1
    MaxFailures = 1
    SingleCheckout = FALSE
    ExactlyOnce = FALSE
SYMMETRY Symmetry
INVARIANT StatusAgreesWithCredits
INVARIANT StatusIsBacked
CHECK_DEADLOCK FALSE
