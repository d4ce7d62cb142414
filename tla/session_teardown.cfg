SPECIFICATION FairSpec
CONSTANTS
    Ids = {a}
    Orderly = TRUE
PROPERTIES
    TeardownCompletes
