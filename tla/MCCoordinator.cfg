SPECIFICATION CoordinatorSpec
CONSTANTS
    NMap = 2
    NReduce = 2
    MaxSlow = 1
    MaxCrashes = 2
INVARIANTS CoordinatorInv ReduceAfterMaps FinishedMeansReported LostBucketWasReassigned
PROPERTY HandedOutAgain
