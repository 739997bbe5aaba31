SPECIFICATION AppraiseSpec
CONSTANTS
    Scale = 4
    Threshold <- Thresholds
    None = None
    Image = {1, 2, 3, 4, 5}
    Skeet = {1, 2}
    Models = {"old", "new", "gone"}
    Order = "quality"
    Window = 10
    Ttl = 1
    ProbeTime = 1
    PageSize = 2
    Scene <- Scenes
    Tab = {1, 2}
    Account = {"ann", "bob"}
    Allowed = {"ann"}
    Path <- Paths
    Catalogs <- Shelves
    MaxLogins = 2
    MaxVisits = 3
    MaxFaults = 1
INVARIANTS PagesCoverTheTable PagesAgreeWithTheList OnlyTheListIsServed
PROPERTIES DeletionIsSeen LandsWhereItAsked PickedFeedIsShown
CHECK_DEADLOCK FALSE
