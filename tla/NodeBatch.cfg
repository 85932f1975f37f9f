\* ROS 2, two parameters set at once.
CONSTANTS
    Topics = {"gga", "bestp"}
    Periods = {"5"}
    Ros = 2
    Batch = 2
    MaxCalls = 2
    Faults = FALSE
    Settled = TRUE
SPECIFICATION Spec
CHECK_DEADLOCK FALSE
INVARIANT OutputAsParameter
