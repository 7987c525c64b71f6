SPECIFICATION SpecSlashRegistered
CONSTANTS
    o1 = o1  o2 = o2  o3 = o3  g1 = g1  g2 = g2  s1 = s1  s2 = s2
    r1 = r1  r2 = r2  c1 = c1  c2 = c2
    BaseChallengePeriodDuration = 1
    KChallengePeriod = 1
    MaxOperationsInQueue = 2
    ChallengeDuration = 1
    EpochDuration = 8
    OneHour = 1
    FiveDays = 2
    Operations = {o1}
    Unexecutable = {}
    Guardians = {g1}
    Sentinels = {s1, s2}
    Relayers = {r1}
    Challengers = {}
    AcceptsEther = {r1}
    ZeroAddress = ZeroAddress
    IsInterimChain = TRUE
    ActorSets <- WithAndWithoutSentinel
    MessageLag = 0
    LockedAmountChallengePeriod = 2
    LockedAmountStartChallenge = 3
    MaxChallenges = 0
    MaxTime = 10
PROPERTIES
    ProgressNeedsActiveActors
