SPECIFICATION BookingSpec
CONSTANTS
    early = early
    late = late
    long = long
    inner = inner
    back = back
    other = other
    NoBooking = NoBooking
    Bookings = {early, late, long, inner, back, other}
    Handlers = {t1, t2}
    TableOf <- Tables
    StartOf <- Starts
    EndOf <- Ends
    MaxLosses = 1
INVARIANT OverbookingBounded
PROPERTY NoDoubleBookingIfSerial
CHECK_DEADLOCK FALSE
