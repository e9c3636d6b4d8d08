SPECIFICATION Spec
CHECK_DEADLOCK FALSE
CONSTANTS
    Documents <- MCDocuments
    PathTokens <- MCPathTokens
    OddTokens = {}
    OtherSchemes <- MCOtherSchemes
    Punctuation <- MCPunctuation
    FetchNames <- MCFetchNames
    AjaxNames <- MCAjaxNames
    resolveAndAdd <- MCResolved
    Sources <- MCSources
    Identity <- MCIdentity
    maxBoilerplateRunes = 4
    maxIntroRunes = 2
    minLinkItems = 3
    maxJSONDepth = 1
    NoHref = ""
    ValidSettings <- MCSettings
    Contents <- MCContents
    MaxEmbedded = 3
    BatchSize = 2
    MaxRetries = 1
    Dimensions = 1
    ServerDims = {0, 1, 2}
    Parameters <- MCParameters
    Lists <- MCLists
    DefaultLimit = 2
    MaxLimit = 3
    RRFK = 1
    Spellings <- MCSpellings
    Bases <- MCBases
    Lower <- MCLower
    TrackingParams = {"utm"}
INVARIANTS ScriptLinksDetermined PageIsReadWhole ChunksReassemble VectorsMatchTexts RankingIsFused CanonicalIsStable
PROPERTY EveryJobEnds
