CONSTANTS
    N = 3
    Places = 2
    Now = 1
    Limit = 1
    Filter = {{"open"}, {"open", "done", "deleted"}}
SPECIFICATION Spec
INVARIANTS
    CursorNeverRepeats
    CursorMissesOnePerStaleCursor
    OffsetRepeatsNeedArrivals
    OffsetMissesNeedDepartures
    PageFitsTotal
    DashboardDrift
