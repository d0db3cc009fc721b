\* A release of a host id meets a replay.
SPECIFICATION FairSpec
CONSTANTS
    Clients = {c1}
    Plans = {"release"}
    LogRoom = 1
    MaxLag = 1
    LostReplies = TRUE
    Faults = FALSE
PROPERTY Answered
