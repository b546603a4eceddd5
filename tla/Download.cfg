SPECIFICATION FairDownloadSpec
CONSTANTS
    MaxLegs = 3
    MaxFlights = 2
    MaxClicks = 2
    QueryFailures = 1
INVARIANT DownloadTypeOK
INVARIANT SpinnerHonest
INVARIANT HookFollowsLive
INVARIANT UpAfterDownload
PROPERTY SpinnerEnds
CHECK_DEADLOCK FALSE
