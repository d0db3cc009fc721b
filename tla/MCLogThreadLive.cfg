\* Every request is answered; a commit may land and be reported as failed.
SPECIFICATION LiveSpec
CONSTANTS
    Clients = {c1}
    Plans = {"release", "demote", "promote", "umount"}
    LogRoom = 1
    MaxLag = 1
    LostReplies = TRUE
    Faults = FALSE
INVARIANT OnceEach
PROPERTY Answered
