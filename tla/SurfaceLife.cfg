SPECIFICATION CarefulSpec
CONSTANTS
    MaxSurfaces = 3
    MaxSignals = 2
INVARIANTS TypeOK ParentsDrawSatellites DrawnWithParentOnly ContextEnds NoSatelliteInShell ManagedIsReady NoGhost
PROPERTY GhostsLeave
