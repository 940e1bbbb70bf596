SPECIFICATION FairSpec
CONSTANTS
    Jobs <- MCThree
    Users = {"ann", "bob"}
    UserOf <- MCThreeUserOf
    LaneOf <- MCApartLaneOf
    Handled = {1, 2, 3}
    Resumable = {1}
    MaxConcurrent = 2
    PerUserLimit = 1
    MaxActivePerUser = 2
    MaxAttempts = 2
    DbErrors = {"finish"}
INVARIANTS WorkConserving FairShare OnlyTimedOutLinger
PROPERTIES EveryJobEnds
