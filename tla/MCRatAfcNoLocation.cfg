\* A submission whose location cannot be computed.
CONSTANTS
    Undefined = Undefined
    ConfigError = ConfigError
    Codes = {0, 1}
    Statuses = {500}
    FeatureCounts = {0, 1}
    Configs <- MCConfigs
    Requests <- MCRequestsNoLocation
    Outcomes <- MCOutcomes
    Gateway <- MCGateway
    Clicks <- MCClicks
    DefaultCenter <- MCCenter
    FeatureLimit = 1
    MaxSends = 1
    MaxMounts = 1
    MaxVersion = 0
SPECIFICATION Spec
INVARIANT InfoMeansInFlight
\* The console waits for input forever once the bounds are spent.
CHECK_DEADLOCK FALSE
