\* The controller against the envelope result its handler is written for:
\* overlapping submissions, remount through the cache.
CONSTANTS
    Undefined = Undefined
    ConfigError = ConfigError
    Codes = {0, 1}
    Statuses = {500}
    FeatureCounts = {0, 1}
    Configs <- MCConfigs
    Requests <- MCRequests
    Outcomes <- MCOutcomes
    Gateway <- MCGateway
    Clicks <- MCClicks
    DefaultCenter <- MCCenter
    FeatureLimit = 1
    MaxSends = 3
    MaxMounts = 2
    MaxVersion = 2
SPECIFICATION Spec
INVARIANT TypeOK ResponseMatchesMarker RlanTagged
PROPERTY OverlayRedraw
\* The console waits for input forever once the bounds are spent.
CHECK_DEADLOCK FALSE
