SPECIFICATION FairSpec
CONSTANTS
    MaxCheckouts = 2
    MaxJobs = 2
    MaxFailures = 1
    MaxEvents <- MCMaxEvents
INVARIANTS TypeOK
PROPERTIES KeepsPlan EveryMandateResolved FollowsProvider
CHECK_DEADLOCK FALSE
