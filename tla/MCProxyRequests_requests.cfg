\* Two requests to the same or to two instances, and two drains of any trackers.
SPECIFICATION FairSpec
CONSTANTS
    None = None
    Total = Total
    i1 = i1
    i2 = i2
    r1 = r1
    r2 = r2
    d1 = d1
    d2 = d2
    Requests = {r1, r2}
    Instances = {i1, i2}
    Drainers = {d1, d2}
    Waits = {300, 1499, 60000}
INVARIANTS
    SlotsReturned
    NoLostWakeup
    RetryHintSane
PROPERTIES
    SlotsComeBack
    ImplementsInFlight
