SPECIFICATION Spec
CONSTANTS
    Rows = 2
    Cols = 4
    Letters = {"a"}
    Editing = {"BS", "CR", "CTL"}
    Preference = "adaptive"
    TypesAhead = TRUE
    Repaints = TRUE
    MaxKeys = 4
    MaxWaiting = 3
    MaxResizes = 2
INVARIANTS NoCellOutlivesItsEpoch CursorHeals
CHECK_DEADLOCK FALSE
