\* Close and abort protocol of one socket, with up to two bytes queued each way.
CONSTANTS
    t1 = t1
    t2 = t2
    t3 = t3
    Tasks <- MC_Tasks1
    N = 1
    MaxQ = 2
SPECIFICATION FairSpec
PROPERTIES
    
    ShutdownTerminates
    DiscardTerminates
