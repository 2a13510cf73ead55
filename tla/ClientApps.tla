------------------------------- MODULE ClientApps ------------------------------
(***************************************************************************)
(* The applications made with the simple framework, perceptiactl's         *)
(* screenshot and two examples, against the part of the server they talk   *)
(* to.  Events and requests are delivered in order; displays may be        *)
(* created, the server may go away and the user may kill the application   *)
(* at any time, and run it again.                                          *)
(*                                                                         *)
(* Bounds: MaxScreens displays, MaxRuns runs.                              *)
(***************************************************************************)
EXTENDS Framework

CONSTANTS Apps, MaxScreens, MaxRuns

ASSUME AppsAssumption == Apps \subseteq {"screenshot", "egl", "dmabuf"}

VARIABLES
    app,        \* application that runs
    works,      \* what of its environment works
    client,     \* see Framework
    phase,      \* of the application
    runs,       \* applications started
    batch,      \* events read and not handled
    events,     \* events on their way to the client
    requests,   \* requests on their way to the server
    server,     \* objects of the client in the server, and screenshots being taken
    screens,    \* displays created
    gone        \* the server is gone

vars == <<app, works, client, phase, runs, batch, events, requests, server, screens, gone>>

(* What may fail: the path of the device, opening it, its magic, drawing   *)
(* a window, importing its image, and capturing an output.                 *)
Depends(a) ==
    CASE a = "screenshot" -> {"capture"}
      [] a = "egl" -> {"path", "device", "magic", "window", "import"}
      [] a = "dmabuf" -> {"window", "import"}

-----------------------------------------------------------------------------
(* The listeners: what each application does when it is told.              *)
Required(a) ==
    CASE a = "screenshot" -> {"output", "shm", "screenshooter"}
      [] a = "egl" -> {"compositor", "drm", "shell"}
      [] a = "dmabuf" -> {"compositor", "dmabuf", "shell"}

GlobalsDone(x) == IF Required(app) \subseteq x.globals THEN x ELSE Stop(x)

Lowest(S) == CHOOSE i \in S : \A j \in S : i <= j

Highest(S) == CHOOSE i \in S : \A j \in S : i >= j

(* A black image of the area all outputs take.                             *)
PrepareImage(x) ==
    LET outputs == ToSet(x.listener.outputs)
        left == Lowest({0} \union {o.x : o \in outputs})
        right == Highest({0} \union {o.x + o.width : o \in outputs})
    IN  [x EXCEPT !.listener.image = [p \in 0..(right - left - 1) |-> 0],
                  !.listener.offset = -left]

TakeLast(x) ==
    IF x.listener.outputs = <<>> THEN Fails(x, "missing")
    ELSE TakeScreenshot(x, Last(x.listener.outputs))

OutputsDone(x) ==
    LET y == InitializeScreenshoter(PrepareImage([x EXCEPT !.listener.outputs = x.outputs]))
    IN  Then(y, TakeLast(y))

(* Mutant: the screenshot is taken for the first output that is left.      *)
HandleScreenshotOfFirst(x, buffer) ==
    LET output == Head(x.listener.outputs)
        at == (output.x + x.listener.offset)..(output.x + x.listener.offset + output.width - 1)
    IN  [x EXCEPT !.listener.outputs = Tail(@),
                  !.listener.image = [p \in DOMAIN @ |-> IF p \in at THEN buffer ELSE @[p]]]

HandleScreenshot(x, buffer) ==
    LET output == Last(x.listener.outputs)
        at == (output.x + x.listener.offset)..(output.x + x.listener.offset + output.width - 1)
    IN  [x EXCEPT !.listener.outputs = Front(@),
                  !.listener.image = [p \in DOMAIN @ |-> IF p \in at THEN buffer ELSE @[p]]]

ContinueScreenshot(x) ==
    IF x.listener.outputs # <<>> THEN TakeLast(x)
    ELSE Stop([x EXCEPT !.listener.saved = x.listener.image])

OnScreenshotDone(x, buffer) == ContinueScreenshot(HandleScreenshot(x, buffer))

OpenDevice(x) ==
    IF "device" \notin works THEN x
    ELSE [InitializeGraphics(x, "magic" \in works) EXCEPT !.listener.fd = TRUE]

(* Making a window takes the device, and calls that may each fail.         *)
CreateEglWindow(x) ==
    IF x.listener.fd /\ "window" \in works THEN x ELSE Fails(x, "window")

GraphicsDone(x) ==
    LET y == CreateEglWindow(x) IN IF app = "egl" THEN Then(y, CreateEglSurface(y)) ELSE x

GraphicsFailed(x) == Stop(x)

CreateDmabufWindow(x) == IF "window" \in works THEN x ELSE Fails(x, "window")

InitDone(x) ==
    CASE app = "screenshot" -> OutputsDone(x)
      [] app = "egl" -> OpenDevice(x)
      [] app = "dmabuf" -> LET y == CreateDmabufWindow(x)
                           IN  Then(y, CreateDmabufSurface(y))

-----------------------------------------------------------------------------
(* The object an event is for, and what is done there.                     *)
Recipient(what) ==
    CASE what = "delete_id" -> {"display"}
      [] what = "global" -> {"registry"}
      [] what = "done" -> {"globals_done", "init_done"}
      [] what \in {"geometry", "mode", "output_done"} -> {"output"}
      [] what \in {"device", "authenticated"} -> {"drm"}
      [] what \in {"created", "failed"} -> {"params"}
      [] what = "shot" -> {"screenshooter"}

Finds(x, e) == e.to \in DOMAIN x.objects /\ x.objects[e.to] \in Recipient(e.what)

CallbackDone(x, e) ==
    IF x.objects[e.to] = "init_done" THEN InitDone(x)
    ELSE CallbackOfGlobals(GlobalsDone(x), e)

Handled(x, e) ==
    CASE ~Finds(x, e) -> Fails(x, "stray")
      [] e.what = "delete_id" -> DisplayDeleteId(x, e)
      [] e.what = "global" -> RegistryGlobal(x, e)
      [] e.what = "geometry" -> OutputGeometry(x, e)
      [] e.what = "mode" -> OutputMode(x, e)
      [] e.what = "output_done" -> OutputDone(x, e)
      [] e.what = "done" -> CallbackDone(x, e)
      [] e.what = "device" -> DrmDevice(x, e)
      [] e.what = "authenticated" -> 
                IF DrmAuthenticated(x) THEN GraphicsDone(x) ELSE GraphicsFailed(x)
      [] e.what = "created" -> ParamsCreated(x, e)
      [] e.what = "failed" -> x
      [] e.what = "shot" -> 
                IF ScreenshotDone(x) THEN OnScreenshotDone(ScreenshotDropped(x), e.of) ELSE Stop(x)

-----------------------------------------------------------------------------
(* The server.  Its handlers give the objects it knows, the events told,   *)
(* and the screenshots to take.                                            *)
Event(what, to, of) == [what |-> what, to |-> to, of |-> of]

NoObjects == [known |-> With(Empty, DisplayId, <<"display">>), shots |-> <<>>]

Knows(s, id, kind) == [s EXCEPT !.known = With(@, id, kind)]

Announced == <<"shm", "compositor", "shell", "other", "screenshooter", "dmabuf", "drm">>

Globals == Announced \o [i \in 1..screens |-> "output"]

GetRegistry(s, r) ==
    [server |-> Knows(s, r.id, <<"registry">>),
     told |-> [n \in DOMAIN Globals |->
                    Event("global", r.id, [name |-> n, interface |-> Globals[n]])]]

Sync(s, r) ==
    [server |-> s, told |-> <<Event("done", r.id, 0), Event("delete_id", r.to, r.id)>>]

OutputNew(r) ==
    << Event("geometry", r.id, (r.of - Len(Announced) - 1) * Width),
       Event("mode", r.id, Width), Event("output_done", r.id, 0) >>

DrmNew(r) == IF "path" \in works THEN <<Event("device", r.id, 0)>> ELSE <<>>

(* An output is known together with its number.                            *)
RegistryBind(s, r) ==
    LET kind == Globals[r.of]
    IN  [server |-> Knows(s, r.id, IF kind = "output" THEN <<kind, r.of - Len(Announced)>>
                                   ELSE <<kind>>),
         told |-> CASE kind = "output" -> OutputNew(r) [] kind = "drm" -> DrmNew(r)
                    [] OTHER -> <<>>]

DrmAuthenticate(s, r) == [server |-> s, told |-> <<Event("authenticated", r.to, 0)>>]

DrmCreateBuffer(s, r) ==
    [server |-> IF "import" \in works THEN Knows(s, r.id, <<"drm_buffer">>) ELSE s, told |-> <<>>]

ParamsCreate(s, r) ==
    IF "import" \in works
    THEN [server |-> Knows(s, ServerId, <<"dmabuf_buffer">>),
          told |-> <<Event("created", r.to, ServerId)>>]
    ELSE [server |-> s, told |-> <<Event("failed", r.to, 0)>>]

ScreenshooterShoot(s, r) ==
    [server |-> [s EXCEPT !.shots = Append(@, Event("shot", r.to, s.known[r.of.output][2]))],
     told |-> <<>>]

Made(what) ==
    CASE what = "create_pool" -> "pool"           [] what = "create_buffer" -> "shm_buffer"
      [] what = "create_params" -> "params"       [] what = "create_surface" -> "surface"
      [] what = "get_shell_surface" -> "shell_surface"

Served(s, r) ==
    CASE r.what = "get_registry" -> GetRegistry(s, r)
      [] r.what = "sync" -> Sync(s, r)
      [] r.what = "bind" -> RegistryBind(s, r)
      [] r.what = "authenticate" -> DrmAuthenticate(s, r)
      [] r.what = "create_image" -> DrmCreateBuffer(s, r)
      [] r.what = "create" -> ParamsCreate(s, r)
      [] r.what = "shoot" -> ScreenshooterShoot(s, r)
      [] r.what \in {"add", "set_toplevel", "attach", "commit"} -> [server |-> s, told |-> <<>>]
      [] OTHER -> [server |-> Knows(s, r.id, <<Made(r.what)>>), told |-> <<>>]

-----------------------------------------------------------------------------
(* Application::run: the display, the registry and the first callback.     *)
Started(files) ==
    LET x == AddObject(Client(files), DisplayId, "display")
        registry == Free(x)
        y == Create(x, "registry", "get_registry", DisplayId)
    IN  [Create(y, "globals_done", "sync", DisplayId) EXCEPT !.store.registry = registry]

Starts(a, files) ==
    /\ app' = a
    /\ works' \in SUBSET Depends(a)
    /\ requests' = Started(files).sent
    /\ client' = [Started(files) EXCEPT !.sent = <<>>]
    /\ phase' = "running" /\ gone' = FALSE
    /\ batch' = <<>> /\ events' = <<>> /\ server' = NoObjects

Init ==
    /\ app \in Apps
    /\ works \in SUBSET Depends(app)
    /\ requests = Started({}).sent
    /\ client = [Started({}) EXCEPT !.sent = <<>>]
    /\ phase = "running" /\ gone = FALSE /\ runs = 1
    /\ batch = <<>> /\ events = <<>> /\ server = NoObjects
    /\ screens = 0

(* A run that starts with files that were left; others start like the      *)
(* first one.                                                              *)
Rerun(a) ==
    /\ phase # "running" /\ client.disk # {} /\ runs < MaxRuns
    /\ runs' = runs + 1
    /\ Starts(a, client.disk)
    /\ UNCHANGED screens

(* A client that ends in the middle of a screenshot may leave its file.    *)
Leaves(x, how) ==
    /\ phase' = how
    /\ \E y \in {x, ScreenshotDropped(x)} : client' = [y EXCEPT !.sent = <<>>]

OnlyClient == UNCHANGED <<app, works, runs, events, server, screens, gone>>

(* One message is read from the socket, as much as has come.               *)
ReadEvents ==
    /\ phase = "running" /\ client.run /\ ~gone /\ batch = <<>>
    /\ \E n \in DOMAIN events :
        /\ batch' = SubSeq(events, 1, n)
        /\ events' = SubSeq(events, n + 1, Len(events))
    /\ UNCHANGED <<app, works, client, phase, runs, requests, server, screens, gone>>

(* Requests that cannot be sent are a panic, too.                          *)
ProcessEvent ==
    LET x == Handled(client, Head(batch))
        y == IF gone /\ x.sent # <<>> THEN Fails(x, "server") ELSE x
    IN  /\ phase = "running" /\ batch # <<>>
        /\ batch' = Tail(batch)
        /\ requests' = IF gone THEN requests ELSE requests \o x.sent
        /\ IF y.fault = Nothing
           THEN client' = [y EXCEPT !.sent = <<>>] /\ UNCHANGED phase
           ELSE Leaves(y, "failed")
        /\ OnlyClient

(* The dispatcher looks whether to stop after each event it processed.     *)
EndRun ==
    /\ phase = "running" /\ batch = <<>> /\ ~client.run
    /\ Leaves(client, "ended")
    /\ UNCHANGED <<batch, requests>> /\ OnlyClient

HungUp ==
    /\ phase = "running" /\ batch = <<>> /\ client.run /\ gone
    /\ client' = Stop(client)
    /\ UNCHANGED <<phase, batch, requests>> /\ OnlyClient

Kill ==
    /\ phase = "running"
    /\ phase' = "killed"
    /\ UNCHANGED <<client, batch, requests>> /\ OnlyClient

Serve ==
    LET s == Served(server, Head(requests))
    IN  /\ phase = "running" /\ requests # <<>> /\ ~gone
        /\ server' = s.server /\ events' = events \o s.told
        /\ requests' = Tail(requests)
        /\ UNCHANGED <<app, works, client, phase, runs, batch, screens, gone>>

ScreenshotTaken ==
    /\ phase = "running" /\ server.shots # <<>> /\ "capture" \in works /\ ~gone
    /\ events' = Append(events, Head(server.shots))
    /\ server' = [server EXCEPT !.shots = Tail(@)]
    /\ UNCHANGED <<app, works, client, phase, runs, batch, requests, screens, gone>>

CreateDisplay ==
    /\ screens < MaxScreens
    /\ screens' = screens + 1
    /\ UNCHANGED <<app, works, client, phase, runs, batch, events, requests, server, gone>>

ServerEnds ==
    /\ phase = "running" /\ gone' = TRUE
    /\ UNCHANGED <<app, works, client, phase, runs, batch, events, requests, server, screens>>

Next ==
    \/ ReadEvents \/ ProcessEvent \/ EndRun \/ HungUp
    \/ Kill \/ Serve \/ ScreenshotTaken \/ CreateDisplay \/ ServerEnds
    \/ \E a \in Apps : Rerun(a)

(* The loops of the client, the server and the exhibitor keep running.     *)
(* Only ProcessEvent takes an event from what was read.                    *)
Consumes == phase = "running" /\ batch # <<>> /\ batch' = Tail(batch)

Fairness ==
    /\ WF_vars(ReadEvents) /\ WF_batch(Consumes) /\ WF_vars(EndRun \/ HungUp)
    /\ WF_vars(Serve) /\ WF_vars(ScreenshotTaken)

Spec == Init /\ [][Next]_vars /\ Fairness

-----------------------------------------------------------------------------
Target(what) ==
    CASE what \in {"get_registry", "sync"} -> "display"     [] what = "bind" -> "registry"
      [] what \in {"authenticate", "create_image"} -> "drm" [] what = "create_pool" -> "shm"
      [] what = "create_buffer" -> "pool"                   [] what = "shoot" -> "screenshooter"
      [] what = "create_params" -> "dmabuf"                 [] what \in {"add", "create"} -> "params"
      [] what = "create_surface" -> "compositor"            [] what = "get_shell_surface" -> "shell"
      [] what = "set_toplevel" -> "shell_surface"           [] OTHER -> "surface"

IsKnown(id, kind) == id \in DOMAIN server.known /\ server.known[id][1] = kind

(* Client and server understand each other although IDs are used again and *)
(* each side is behind the other: an event finds an object of the client   *)
(* that is meant (wl_callback and wl_display of callback.rs and display.rs *)
(* must agree when an ID is free), a request finds an object of the server *)
(* and brings only new IDs, and a handler never takes from the store what  *)
(* was not put there: it fails only because of a file left by a run that   *)
(* was cut short, the window it draws, or the server gone.                 *)
EventsFind == batch # <<>> /\ phase = "running" => Finds(client, Head(batch))

RequestsFind ==
    requests # <<>> /\ phase = "running" =>
        LET r == Head(requests)
        IN  /\ IsKnown(r.to, Target(r.what))
            /\ r.id \notin DOMAIN server.known
            /\ r.what = "shoot" =>
                    IsKnown(r.of.output, "output") /\ IsKnown(r.of.buffer, "shm_buffer")

FailsForCause ==
    phase = "failed" =>
        \/ client.fault = "file" /\ runs > 1
        \/ client.fault = "window" /\ app # "screenshot" /\ "window" \notin works
        \/ client.fault = "server" /\ gone

Understood == EventsFind /\ RequestsFind /\ FailsForCause

(* perceptiactl takes the whole picture, with each output it was told of   *)
(* at its place (screenshot.rs captures from the last one): where outputs  *)
(* can be captured it ends with the image saved, unless it failed or was   *)
(* killed, the server went away, or a global it requires is missing.       *)
Whole(x) == [p \in 0..(Len(x.outputs) * Width - 1) |-> p \div Width + 1]

Saved ==
    \/ phase \in {"failed", "killed"} \/ app # "screenshot"
    \/ /\ phase = "ended"
       /\ gone \/ "output" \notin client.globals \/ client.listener.saved = Whole(client)

SavesWhole == (app = "screenshot" /\ "capture" \in works) ~> Saved
=============================================================================
