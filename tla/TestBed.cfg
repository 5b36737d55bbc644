SPECIFICATION Spec
CONSTANTS
    Host = {1, 2, 3}
    slow = slow
    bad = bad
    zero = zero
    Rule = {slow, bad, zero}
    BadRule = bad
    NoDelay = zero
    None = None
    MaxFailedCalls = 1
    TestFile <- Files
    Mode = {"local", "gce"}
    MaxFailedRpcs = 1
CHECK_DEADLOCK FALSE
INVARIANTS AckUsedOnce OwnAck StaleAcks ParseUnrolls CheckedFirst MeasuredAsPlanned NetworkRestored
PROPERTY TestEnds
