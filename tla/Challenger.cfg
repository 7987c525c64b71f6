SPECIFICATION FairSpec
CONSTANTS
    n1 = n1  n2 = n2  actor = actor  ignored = ignored
    Null = Null
    Networks <- TwoNetworks
    BlockTime <- OneBlockPerInstant
    Actors <- TwoActors
    Challenges <- ThreeChallenges
    ActorsOf <- FirstEpochs
    IgnoredActors = {ignored}
    Duration = 1
    EpochLength = 4
    FireChallengeThreshold = 0
    ChallengeRounds = {1}
    SlashRounds = {1, 2}
    MaxFaults = 1
    MaxCycles = 1
    CycleTimes = {1}
    MaxTime = 4
    Bounds <- ThreeBounds
INVARIANTS
    TypeOK
    ChallengesFollowHub
    ActorsFollowHub
    BondsAreTracked
PROPERTIES
    SilentActorsAreSlashed
CHECK_DEADLOCK FALSE
