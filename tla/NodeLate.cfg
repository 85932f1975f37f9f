\* ROS 2, a receiver that may answer late: a period is set without a publisher.
CONSTANTS
    Topics = {"gga"}
    Periods = {"5"}
    Ros = 2
    Batch = 1
    MaxCalls = 1
    Faults = TRUE
    Settled = TRUE
SPECIFICATION Spec
CHECK_DEADLOCK FALSE
INVARIANT PublisherForPeriod
