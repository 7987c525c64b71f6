SPECIFICATION FairSpec
CONSTANTS
    n1 = n1  n2 = n2  n3 = n3  t1 = t1  t2 = t2  t3 = t3  other = other
    Null = Null
    Me = me
    Networks <- ThreeNetworks
    Logs <- AllLogs
    EventsOf <- AllEvents
    MaxFaults = 1
    Loops <- OneLoop
    NetworkOf <- ServesN2
    Operations <- TwoOperations
    Challenges <- OnBothChains
    Classes = {"guardian"}
    Delaying = {"guardian"}
    Unexecutable = {}
    Period = 1
    Delay = 1
    MaxOperationsInQueue = 2
    Duration = 1
    EpochLength = 3
    LastArrival = 1
    MaxTime = 3
    MaxEmitted = 2
INVARIANTS
    TypeOK
    OnlyUnreportedAreDismissed
    RecordsAreTrue
PROPERTIES
    ObjectsToFraud
    AnswersChallenges
CHECK_DEADLOCK FALSE
