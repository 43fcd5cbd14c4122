\* Time units of 20 s: a freshness window of 280 s, refreshed at half of it,
\* retried after 20 s, with loads of up to 20 s and as long to disconnect.
SPECIFICATION FairSpec
CONSTANTS
    l1 = l1
    l2 = l2
    None = None
    Loops = {l1, l2}
    MaxAge = 14
    Ratio = 2
    MinInterval = 1
    RetryBackoff = 1
    MaxBackoff = 6
    LoadTime = 1
    CloseTime = 1
    FailureCap = 6
INVARIANT SingleFailureIsTolerated
PROPERTY SnapshotOnlyAdvances
PROPERTY RecoversOnceReachable
