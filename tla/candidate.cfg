SPECIFICATION Spec
CONSTANTS
    p1 = p1
    p2 = p2
    b1 = b1
    b2 = b2
    Post = {p1, p2}
    Blob = {b1, b2}
    Images <- SharedImages
    Picture <- PerBlob
    Side = 4
    Threshold <- Thresholds
    ImageWorkers = 2
    MaxReplays = 1
    MaxLabelled = 1
    MaxFaults = 1
INVARIANTS StoredIsFit ReplayAddsNoRow NothingFitIsDropped
CHECK_DEADLOCK FALSE
