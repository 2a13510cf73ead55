SPECIFICATION Spec
CONSTANTS
    EventLoops = {"utils", "exhibitor"}
    Services = {"wayland"}
    Main = "main"
    Signals = {"OUTPUT_FOUND", "DISPLAY_CREATED", "PAGE_FLIP", "SURFACE_FRAME", "NOTIFY",
               "INPUTS_CHANGED"}
    Customs = {"HANDLE_NEW_CLIENT"}
    Handlers = {"signals", "pageflip", "monitor", "device", "display", "client"}
    LocalHandlers = {"display", "client"}
    Locks = {"inner", "dispatcher", "local"}
    MaxEvents = 1
INVARIANTS
    NobodySleepsOnWork
    OnlyHandlersDeadlock
PROPERTIES
    EmittedIsTaken
    StopsCleanly
CHECK_DEADLOCK FALSE
