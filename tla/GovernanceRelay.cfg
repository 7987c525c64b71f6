SPECIFICATION FairSpec
CONSTANTS
    h1 = h1
    h2 = h2
    p1 = p1
    g1 = g1
    g2 = g2
    s1 = s1
    s2 = s2
    Null = Null
    Hubs <- TwoHubs
    TestHubs <- TheTestHub
    Tasks = {p1}
    Forced = {}
    Actors <- FourActors
    GuardianRegistrations <- ReplacedGuardian
    SentinelRegistrations <- TwoSentinels
    RegistrationOf <- TwoKinds
    StakedAmountOf <- SlashedStake
    MinimumAmount = 2
    OtherLists <- ThreeLists
    LastEpoch = 1
    MaxBlocks = 2
    MaxMessages = 2
    MaxRuns <- Twice
    MaxLeaves = 5
INVARIANTS
    TypeOK
    VerifiedInOrder
    RepeatsOnlyWhatItMissed
    HubsKnowTheSentinels
    ProofsIdentifyBlocks
PROPERTIES
    MessagesAreVerified
CHECK_DEADLOCK FALSE
