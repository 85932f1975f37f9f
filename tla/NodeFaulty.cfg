\* ROS 2 from start-up, with losses and timeouts.
CONSTANTS
    Topics = {"gga"}
    Periods = {"5"}
    Ros = 2
    Batch = 1
    MaxCalls = 2
    Faults = TRUE
    Settled = FALSE
SPECIFICATION FairSpec
CHECK_DEADLOCK FALSE
INVARIANT CallbackScoped
INVARIANT AnsweredHasCode
INVARIANT CacheIsParameter
INVARIANT OkMeansRemembered
PROPERTY CallsReturn
