SPECIFICATION FairSpec
CONSTANTS
    s1 = s1
    s2 = s2
    Session = {s1, s2}
    NoSession = NoSession
    EventProcessingLimit = 1
    MaxStarts = 2
    MaxEvents = 2
INVARIANTS WorkerIsOwned ActiveIsRunning ShutdownLeavesNothing TrackedIffActive ListenerServes
PROPERTIES CallsReturn EventsAreTaken
CHECK_DEADLOCK FALSE
