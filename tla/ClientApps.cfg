SPECIFICATION Spec
CONSTANTS
    Apps = {"screenshot", "egl", "dmabuf"}
    Width = 2
    MaxScreens = 2
    MaxRuns = 2
INVARIANT Understood
PROPERTY SavesWhole
CHECK_DEADLOCK FALSE
