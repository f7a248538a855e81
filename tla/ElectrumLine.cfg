CONSTANTS
    MaxResponse = 5
    MaxChunk = 4
    MaxSent = 9
    Reply = {"result", "unreadable", "unexpected", "rejected"}
SPECIFICATION FairLineSpec
INVARIANTS ChunksDoNotMatter
PROPERTY Ended
