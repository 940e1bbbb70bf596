SPECIFICATION Spec
CONSTANTS
    Jobs <- MCJobs
    Users = {"ann", "bob"}
    UserOf <- MCUserOf
    LaneOf <- MCLaneOf
    Handled = {1, 2, 3, 4}
    Resumable = {1}
    MaxConcurrent = 2
    PerUserLimit = 2
    MaxActivePerUser = 2
    MaxAttempts = 2
    DbErrors = {"claim"}
INVARIANTS LaneLock SlotFreed AttemptsBounded
PROPERTIES CancelledNeverReruns LaneOrder KeepsLifecycle
