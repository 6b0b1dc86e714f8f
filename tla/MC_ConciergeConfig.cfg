CONSTANTS
    nil = nil
    none = none
    Nil = nil
    None = none
    Files <- MCFiles
    ValidSuffixes = {"pinniped.dev"}
    DefaultSuffix = "pinniped.dev"
    ValidLogLevels = {"info", "debug"}
SPECIFICATION Spec
INVARIANT TypeOK MatchesReference DefaultsAccepted
PROPERTY LogLevelSetOnlyOnSuccess
CHECK_DEADLOCK FALSE
