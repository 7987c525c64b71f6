SPECIFICATION Spec
CONSTANTS
    o1 = o1  o2 = o2  o3 = o3  g1 = g1  g2 = g2  s1 = s1  s2 = s2
    r1 = r1  r2 = r2  c1 = c1  c2 = c2
    BaseChallengePeriodDuration = 1
    KChallengePeriod = 1
    MaxOperationsInQueue = 1
    ChallengeDuration = 1
    EpochDuration = 5
    OneHour = 2
    FiveDays = 2
    Operations = {}
    Unexecutable = {}
    Guardians = {g1}
    Sentinels = {s1, s2}
    Relayers = {r1}
    Challengers = {c1, c2}
    AcceptsEther = {c1}
    ZeroAddress = ZeroAddress
    IsInterimChain = TRUE
    ActorSets <- OnlyOneSet
    MessageLag = 0
    LockedAmountChallengePeriod = 2
    LockedAmountStartChallenge = 3
    MaxChallenges = 2
    MaxTime = 9
SYMMETRY SentinelSymmetry
INVARIANTS
    EtherCoversLocks
    PendingIdsAgree
    SlashHasOneHour
    OneWayOut
    InactiveTotalsAreExact
PROPERTIES
    ImplementsChallengeGame
