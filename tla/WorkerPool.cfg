CONSTANTS
    NumSlots = 2
    NumJobs = 3
    MaxCrashes = 1
    MaxOvertakes = 1
SPECIFICATION FairPoolSpec
CHECK_DEADLOCK FALSE
INVARIANT
    PoolSound
PROPERTY
    JobsAnsweredOnce
