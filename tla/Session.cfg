SPECIFICATION Spec
CONSTANTS
    Occasions = {{"Meta", "BtnLeft", "mouse", "a"}, {"Ctrl", "Alt", "F2", "terminal", "mouse"},
                 {"Meta", "Esc", "f", "Right", "1", "a"}, {"outputs", "terminal", "look"},
                 {"touchpad", "a", "b"}, {"outputs", "Meta", "BtnLeft", "mouse", "a"}}
    Connectors = {"HDMI", "DP"}
    Width = 2
    Sids = {"a", "b"}
    Steps = {1}
    MaxOutputs = 2
    MaxEvents = 6
    MaxFew = 4
    MaxInbox = 2
INVARIANTS
    NotifiedIsShown
    HoverCurrent
    DragFollowsMode
    CommandsWhole
CHECK_DEADLOCK FALSE
