\* A response with map info followed by one without.
CONSTANTS
    Undefined = Undefined
    ConfigError = ConfigError
    Codes = {0, 1}
    Statuses = {500}
    FeatureCounts = {0, 1}
    Configs <- MCConfigs
    Requests <- MCRequestsEllipse
    Outcomes <- MCOutcomes
    Gateway <- MCGateway
    Clicks <- MCClicks
    DefaultCenter <- MCCenter
    FeatureLimit = 1
    MaxSends = 2
    MaxMounts = 1
    MaxVersion = 0
SPECIFICATION Spec
INVARIANT KmlMatchesResponse
\* The console waits for input forever once the bounds are spent.
CHECK_DEADLOCK FALSE
