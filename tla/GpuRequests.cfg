SPECIFICATION FairSpec
CONSTANTS
    QSize = 6
    IdxMod = 12
    Drive = Drive
    Transfer = Transfer
    Poller = Poller
    Prefill = 2
    StartupReqs = 2
INVARIANTS TypeOK DescriptorsConserved ResponseIsOwn NoLostWakeup
PROPERTY RequestsComplete
