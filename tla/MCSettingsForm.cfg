CONSTANTS
    Keys = {k1, k2}
    Secrets = {k1}
    Address = k2
    Foreign = f
    Values = {0, 1}
    Default = 0
    Blank = 0
    NoSave = NoSave
    Sections <- AllSections
    MaxEdits = 3
    MaxSaves = 2
    MaxTroubles = 1
SPECIFICATION FormSpec
INVARIANTS FormInv
PROPERTIES SaveStores OnlyEditsAreSent StaleIsFetched
CHECK_DEADLOCK FALSE
