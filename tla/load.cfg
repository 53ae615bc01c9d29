SPECIFICATION LoadSpec
CONSTANTS
    c1 = c1
    none = none
    Callers = {c1}
    MaxCalls = 2
    VpcAttributes = {"dns"}
    InstanceAttributes = {"stop"}
    NoId = none
    Recordings <- MCRecordings
    MaxLoads <- MCMaxLoads
    Faulty = {"faults"}
    Calling = {"log"}
    Before <- MCBefore
INVARIANTS
    LoadedIsSound
    LogIsOfTheseRows
PROPERTIES
    RefusedLoadChangesNothing
    LoadTakesItAll
    SoundRecordingsLoad
