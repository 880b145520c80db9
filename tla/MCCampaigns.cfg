CONSTANTS
    Campaigns = {p1}
    Followers = {1, 2, 3}
    Author = 3
    Workers = {w1, w2}
    WorkerId <- FirstWorker
    BatchSize = 1
    Faults = {"crash", "slow", "users", "store", "changes"}
    MaxFaults = 2
    NoId = NoId
    NoCampaign = NoCampaign
SPECIFICATION FairSpec
CHECK_DEADLOCK FALSE
INVARIANTS NobodyPassedOver SuccessNotOverstated
PROPERTIES OnlyHolderCloses CampaignsComplete
