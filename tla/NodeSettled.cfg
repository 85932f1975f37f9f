\* ROS 2, start-up over, nothing lost.
CONSTANTS
    Topics <- MCTopics
    Periods <- MCPeriods
    Ros = 2
    Batch = 1
    MaxCalls = 2
    Faults = FALSE
    Settled = TRUE
SPECIFICATION Spec
CHECK_DEADLOCK FALSE
INVARIANT PublisherForPeriod
INVARIANT OutputAsParameter
INVARIANT OkMeansConfigured
