SPECIFICATION Spec
CONSTANTS
    soup = soup
    tea = tea
    NoOrder = NoOrder
    Orders = {o1}
    Tasks = {t1, t2}
    Roles = {"operator", "cook"}
    Dishes = {soup, tea}
    Available = {soup}
    Baskets <- SoupAndTea
    BeginRaises = FALSE
    MaxRequests = 5
    MaxFailures = 1
INVARIANT HistoryTellsStatus
INVARIANT BoardConverges
INVARIANT CookStaysInKitchen
PROPERTY ImplementsBoard
PROPERTY PolicyHoldsIfSerial
CHECK_DEADLOCK FALSE
