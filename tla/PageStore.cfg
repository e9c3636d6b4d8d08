SPECIFICATION Spec
CONSTANTS
    URLs <- MCURLs
    Canonical <- MCCanonical
    Unusable = "none"
    Sibling <- MCSibling
    Redirects <- MCRedirects
    Legacy <- MCLegacy
    Version = 1
    Crawls <- MCCrawls
    Savers = {s1, s2}
    MaxSaves = 3
    MaxCrashes = 1
INVARIANTS
    GraphIsConsistent
    MigrationLosesNothing
PROPERTIES
    StartGetsThrough
CHECK_DEADLOCK FALSE
