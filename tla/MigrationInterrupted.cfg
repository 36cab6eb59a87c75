SPECIFICATION InsistingSpec
CONSTANTS
    None = None
    Dirs = 1
    MaxFailures = 0
    MaxKills = 1
    MaxExternal = 0
PROPERTIES
    OneRegistrationRemains
