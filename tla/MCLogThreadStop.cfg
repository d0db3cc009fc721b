\* A demotion and an unmount while a trim is postponed.
SPECIFICATION Spec
CONSTANTS
    Clients = {c1}
    Plans = {"demote", "umount"}
    LogRoom = 1
    MaxLag = 1
    LostReplies = TRUE
    Faults = FALSE
INVARIANT StopClean
