\* The ranges arrive after the form was constructed without them.
CONSTANTS
    Undefined = Undefined
    DataValues <- MCDataValues
SPECIFICATION Spec
INVARIANT WarningMeansFallback
