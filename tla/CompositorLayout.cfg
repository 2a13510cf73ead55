SPECIFICATION CarefulSpec
CONSTANTS
    MaxFrames = 7
    None = None
    Surfaces = {s1, s2, s3}
    Floats = {}
    Satellites = {}
    Titles = {1}
    Displays = {1}
    Geometries = {"stacked", "horizontal"}
    Commands = {"manage", "unmanage", "configure", "focus", "jump", "dive", "ramify", "exalt"}
    OverflowChecks = FALSE
VIEW View
SYMMETRY Symmetry
INVARIANTS HandlersGoOn LayersOK FocusFollowsSelection
PROPERTY SurfacesKept
CHECK_DEADLOCK FALSE
