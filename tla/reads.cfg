SPECIFICATION ReadsSpec
CONSTANTS
    me = me
    other = other
    ta = ta
    tb = tb
    Ids = {1, 2, 3, 4, 5}
    Existing = {1, 2, 5}
    Changing = {1, 2}
    Revisable = {2}
    TenantOfId <- MCTenantOfId
    UploaderOf <- MCUploaderOf
    Viewer <- MCViewer
    PendingDays = 0
    Limit = 1
    MaxVersion = 3
    MaxRowWrites = 3
    MaxTime = 1
INVARIANTS
    TraversalsMissNothing
    DetailsAreCoherent
CHECK_DEADLOCK FALSE
