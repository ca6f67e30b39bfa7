\* Leaving the page while a request is in flight and coming back.
CONSTANTS
    Undefined = Undefined
    ConfigError = ConfigError
    Codes = {0, 1}
    Statuses = {500}
    FeatureCounts = {0, 1}
    Configs <- MCConfigs
    Requests <- MCRequestsLocated
    Outcomes <- MCOutcomes
    Gateway <- MCGateway
    Clicks <- MCClicks
    DefaultCenter <- MCCenter
    FeatureLimit = 1
    MaxSends = 1
    MaxMounts = 2
    MaxVersion = 0
SPECIFICATION Spec
INVARIANT InfoMeansInFlight
\* The console waits for input forever once the bounds are spent.
CHECK_DEADLOCK FALSE
