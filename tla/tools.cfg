SPECIFICATION ToolsSpec
CONSTANTS
    a1 = a1
    a2 = a2
    b1 = b1
    b2 = b2
    Items <- MCItems
    VisibleBands = {"MediumHigh", "HighQuality"}
    TrainRatio <- Half
    Prompt = {seed, better}
    SeedPrompt = seed
    LegacyPrompt = legacy
    MaxScore = 2
    LoopThreshold = 1
    Tolerance <- OnePercent
    PerImageCost = 1
    Budget = 4
    MaxIterations = 2
    MaxRuns = 2
    MaxSplits = 1
    Bucket = {"photos", "odd name"}
    OddBucket = {"odd name"}
    BucketsOnPage = 1
    CostLine = {"input", "output"}
    Lookbacks <- Backs
    Lag = 2
    StartTime = 5
    MaxTime = 7
    MaxOperations = 1
    Process = {1, 2}
    Tables <- SomeTables
    Indexed <- SomeIndices
    SmallFragments = 0
    PageSize = 1
    MaxUploads = 2
    MaxRows = 1
    MaxSweeps = 1
    MaxFaults = 1
    Nothing = Nothing
    Scorable = {s1, s2}
    Concurrency = 2
    MaxBatches = 2
    MaxRestarts = 1
    Priced = {m1, m2}
    Labels = {"current", "old"}
    Amounts <- TwoAmounts
    Usages <- OneUsage
    MaxStamp = 2
SYMMETRY ImageSymmetry
INVARIANTS AcceptedClearsFloor AcceptedIsOnRecord WrittenScoresAreShown SpendWithinBudget
INVARIANTS OperationsAreCounted SuccessMeansAllOfIt OpenedIsComplete SweptIsGone
CHECK_DEADLOCK FALSE
