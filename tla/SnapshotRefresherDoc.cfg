\* In seconds: a freshness window of 8 s with every other delay at its
\* default, and loads that take no time.
SPECIFICATION Spec
CONSTANTS
    l1 = l1
    l2 = l2
    None = None
    Loops = {l1, l2}
    MaxAge = 8
    Ratio = 2
    MinInterval = 5
    RetryBackoff = 10
    MaxBackoff = 120
    LoadTime = 0
    CloseTime = 0
    FailureCap = 6
INVARIANT SingleFailureLeavesTimeForRetry
