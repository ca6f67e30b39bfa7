\* The controller composed with the gateway as the code has it:
\* success carries the first element, not the envelope.
CONSTANTS
    Undefined = Undefined
    ConfigError = ConfigError
    Codes = {0, 1}
    Statuses = {500}
    FeatureCounts = {0, 1}
    Configs <- MCConfigs
    Requests <- MCRequestsEllipse
    Outcomes <- MCOutcomes
    Gateway <- MCCodeGateway
    Clicks <- MCClicks
    DefaultCenter <- MCCenter
    FeatureLimit = 1
    MaxSends = 1
    MaxMounts = 1
    MaxVersion = 0
SPECIFICATION Spec
INVARIANT InfoMeansInFlight
\* The console waits for input forever once the bounds are spent.
CHECK_DEADLOCK FALSE
