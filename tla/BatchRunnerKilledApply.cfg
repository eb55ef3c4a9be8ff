CONSTANTS
    None = None
    Tasks = {1, 2, 3}
    Planned <- Chain
    Replanned <- Cut
    Chapters1to4 = {1}
    Starts <- Reviewed
    MaxActions = 2
    MaxVersions = 2
    MaxEvents = 2
SPECIFICATION Spec
CHECK_DEADLOCK FALSE
INVARIANT CleanIsGrounded
