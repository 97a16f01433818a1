\* One device and the job that wraps up, one worker, nothing crashes.
SPECIFICATION FairSpec
CONSTANTS
    NDevices = 1
    Workers = {w1}
    Clears = FALSE
    MaxCrashes = 0
PROPERTY FallbackReleases
