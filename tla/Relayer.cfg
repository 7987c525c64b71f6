SPECIFICATION FairSpec
CONSTANTS
    n1 = n1  n2 = n2  t1 = t1
    Null = Null
    Networks <- TwoNetworks
    Logs <- ThreeOfOneTransaction
    EventsOf <- UserOperationOnN1
    MaxFaults = 1
    Loops <- TwoLoops
    NetworkOf <- BothServeN2
    Operations <- UserOperations
    Classes = {"guardian"}
    Delaying = {"guardian"}
    Period = 1
    Delay = 1
    MaxOperationsInQueue = 1
    BasicPeriod = 1
    LastArrival = 1
    MaxTime = 4
    Unexecutable <- TheThird
    Contested <- AllButTheThird
    Unpaid <- NoFeeForTheSecond
INVARIANTS
    TypeOK
    CollectionFollowsHub
    
PROPERTIES
    ReportsMoveForward
    
CHECK_DEADLOCK FALSE
