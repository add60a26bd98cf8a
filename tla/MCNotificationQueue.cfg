SPECIFICATION FairSpec
CONSTANTS
    Channels = {phone}
    NumNotes = 3
    Backoff <- MCShortBackoff
    MaxAge = 1
    MaxQueue = 2
    MaxCrashes = 1

    
PROPERTIES
    
    QueueDrains
