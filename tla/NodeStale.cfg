\* ROS 2, requests before the start-up commands are answered.
CONSTANTS
    Topics = {"gga"}
    Periods = {"5"}
    Ros = 2
    Batch = 1
    MaxCalls = 1
    Faults = FALSE
    Settled = FALSE
SPECIFICATION Spec
CHECK_DEADLOCK FALSE
INVARIANT OkMeansConfigured
