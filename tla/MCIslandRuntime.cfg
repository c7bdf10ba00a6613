SPECIFICATION FairSpec
CONSTANTS
    Circuits <- MCCircuits
    TimestepLength <- MCTimestep
    MaxIterations = 5
    MaxRounds = 2
    GenerationModulus = 4
    MaxTicks = 3
INVARIANTS
    TypeOK
    SolutionObeysTheLaws
    ObserversShowTheSolution
    SettledIsClosed
    IncrementalIsExact
PROPERTY SolverEnds
