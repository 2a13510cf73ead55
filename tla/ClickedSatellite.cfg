SPECIFICATION Spec
CONSTANTS
    MaxFrames = 6
    None = None
    Surfaces = {s1, s2}
    Floats = {s1, s2}
    Satellites = {x}
    Titles = {1}
    Displays = {1}
    Geometries = {"stacked", "horizontal"}
    Commands = {"manage", "unmanage", "click"}
    OverflowChecks = FALSE
INVARIANT NoPanic
CHECK_DEADLOCK FALSE
