SPECIFICATION FairSpec
CONSTANTS
    Channels = {phone}
    NumNotes = 2
    Backoff <- MCBackoff
    MaxAge = 2
    MaxQueue = 1
    MaxCrashes = 0
PROPERTIES
    UndeliveredAreDiscarded
