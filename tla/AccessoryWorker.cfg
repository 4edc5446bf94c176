SPECIFICATION Spec
CONSTANTS
    RetryMin = 1
    RetryMax = 20
    MaxFailures = 6
    MaxCrashes = 2
INVARIANTS
    TypeOK
    HandleIsWhole
    NotPresentedWithoutSource
    BackoffFollowsFailures
PROPERTIES
    SourceGoneDetaches
    PresentedInTheEnd
