------------------------------- MODULE Framework -------------------------------
(***************************************************************************)
(* The simple framework for Wayland clients: objects with their handlers   *)
(* of events, the proxy and the store they write to, and the controller    *)
(* applications make requests with.  A client is a value, and each handler *)
(* gives the client that follows; requests are collected in "sent".        *)
(*                                                                         *)
(* Positions have one dimension.  Formats, names of makers and the sizes   *)
(* of windows are left out, and so are events all handlers ignore.         *)
(***************************************************************************)
EXTENDS Integers, Sequences, FiniteSets, SequencesExt

CONSTANTS
    Width       \* of an output

ASSUME WidthAssumption == Width \in Nat \ {0}

Nothing == "nothing"

(* IDs of objects the server creates have a range of their own.            *)
ServerId == -1

DisplayId == 1

Empty == [x \in {} |-> x]

Store == [registry |-> 0, compositor |-> 0, shell |-> 0, drm |-> 0, dmabuf |-> 0, shm |-> 0,
          screenshooter |-> 0, name |-> 0, device |-> FALSE, screenshot |-> 0]

(* What an application keeps: outputs it has not captured, its image, how  *)
(* far that is shifted, the image saved, and whether it has a device.      *)
Listener == [outputs |-> <<>>, image |-> Empty, offset |-> 0, saved |-> Nothing, fd |-> FALSE]

(* A client with files of earlier runs on the disk.                        *)
Client(files) ==
    [objects |-> Empty, drafts |-> Empty, store |-> Store, globals |-> {}, outputs |-> <<>>,
     listener |-> Listener, run |-> TRUE, disk |-> files, sent |-> <<>>, fault |-> Nothing]

-----------------------------------------------------------------------------
(* Object IDs: the lowest that is free is taken, as by the library.        *)
Free(x) ==
    LET free == (1..(Cardinality(DOMAIN x.objects) + 1)) \ DOMAIN x.objects
    IN  CHOOSE i \in free : \A j \in free : i <= j

With(f, id, value) == [i \in DOMAIN f \union {id} |-> IF i = id THEN value ELSE f[i]]

AddObject(x, id, kind) == [x EXCEPT !.objects = With(@, id, kind)]

Destroyed(x, id) == [x EXCEPT !.objects = [i \in DOMAIN @ \ {id} |-> @[i]]]

Send(x, request) == [x EXCEPT !.sent = Append(@, request)]

Request(what, to, id, of) == [what |-> what, to |-> to, id |-> id, of |-> of]

(* A panic ends the handler: what follows does not happen.                 *)
Fails(x, why) == [x EXCEPT !.fault = IF @ = Nothing THEN why ELSE @]

Then(x, next) == IF x.fault = Nothing THEN next ELSE x

(* unwrap() of IDs in the store.                                           *)
Needs(x, ids) == IF 0 \in ids THEN Fails(x, "missing") ELSE x

(* A new object and the request that makes the server know it.             *)
Create(x, kind, what, to) ==
    LET id == Free(x) IN Send(AddObject(x, id, kind), Request(what, to, id, 0))

Stop(x) == [x EXCEPT !.run = FALSE]

-----------------------------------------------------------------------------
(* Controller.                                                             *)
InitializeGraphics(x, magic) ==
    IF ~magic THEN x
    ELSE LET y == Needs(x, {x.store.drm})
         IN  Then(y, Send(y, Request("authenticate", y.store.drm, 0, 0)))

InitializeScreenshoter(x) ==
    LET id == Free(x)
        y == Needs(AddObject(x, id, "screenshooter"), {x.store.registry, x.store.name})
    IN  Then(y, [Send(y, Request("bind", y.store.registry, id, y.store.name))
                    EXCEPT !.store.screenshooter = id])

(* The file gets no permissions: one that was left cannot be opened.       *)
CreateAnonymousFile(x, seed) ==
    IF seed \in x.disk THEN Fails(x, "file") ELSE [x EXCEPT !.disk = @ \union {seed}]

(* Drop of ScreenshotStore removes the file.                               *)
ScreenshotDropped(x) == [x EXCEPT !.disk = @ \ {x.store.screenshot}, !.store.screenshot = 0]

ShmPool(x) == Create(Needs(x, {x.store.shm}), "pool", "create_pool", x.store.shm)

ShmBuffer(x, pool) == Create(x, "shm_buffer", "create_buffer", pool)

Shoot(x, output, buffer) ==
    Send(Needs(x, {x.store.screenshooter}),
         Request("shoot", x.store.screenshooter, 0, [output |-> output, buffer |-> buffer]))

TakeScreenshot(x, output) ==
    LET file == CreateAnonymousFile(x, output.id)
        y == Then(file, ShmPool(file))
        z == Then(y, ShmBuffer(y, Free(x)))
    IN  Then(z, [Shoot(z, output.id, Free(y)) EXCEPT !.store.screenshot = output.id])

(* A surface with a role, and its first picture.                           *)
CreateShellSurface(x, buffer) ==
    LET surface == Free(x)
        y == Create(x, "surface", "create_surface", x.store.compositor)
        shell == Free(y)
        z == Create(y, "shell_surface", "get_shell_surface", x.store.shell)
        last == << Request("set_toplevel", shell, 0, 0),
                   Request("attach", surface, 0, buffer), Request("commit", surface, 0, 0) >>
    IN  [z EXCEPT !.sent = @ \o last]

EnsureDrm(x) == 0 \notin {x.store.compositor, x.store.shell, x.store.drm}

EnsureDmabuf(x) == 0 \notin {x.store.compositor, x.store.shell, x.store.dmabuf}

CreateEglBuffer(x) == Create(x, "drm_buffer", "create_image", x.store.drm)

CreateEglSurface(x) ==
    IF EnsureDrm(x) THEN CreateShellSurface(CreateEglBuffer(x), Free(x)) ELSE x

CreateDmabufBuffer(x) ==
    LET params == Free(x)
        y == Create(x, "params", "create_params", x.store.dmabuf)
    IN  Send(Send(y, Request("add", params, 0, 0)), Request("create", params, 0, 0))

CreateDmabufSurface(x) == IF EnsureDmabuf(x) THEN CreateDmabufBuffer(x) ELSE x

-----------------------------------------------------------------------------
(* Handlers of events.  e.to is the object, e.of what the event tells.     *)
Synchronize(x, id) == Send(x, Request("sync", DisplayId, id, 0))

(* Objects of globals are bound as they are announced, except for the      *)
(* screenshooter, of which the name is kept.                               *)
RegistryGlobal(x, e) ==
    LET interface == e.of.interface
        id == Free(x)
        y == [x EXCEPT !.globals = @ \union {interface}]
        bound == Send(AddObject(y, id, interface), Request("bind", e.to, id, e.of.name))
    IN  CASE interface = "output" ->
                [bound EXCEPT !.drafts = With(@, id, [id |-> id, x |-> 0, width |-> 0])]
          [] interface \in {"compositor", "shell", "drm", "dmabuf", "shm"} ->
                [bound EXCEPT !.store[interface] = id]
          [] interface = "screenshooter" -> [y EXCEPT !.store.name = e.of.name]
          [] OTHER -> y

OutputGeometry(x, e) == [x EXCEPT !.drafts[e.to].x = e.of]

OutputMode(x, e) == [x EXCEPT !.drafts[e.to].width = e.of]

OutputDone(x, e) ==
    IF x.drafts[e.to].width = 0 THEN x
    ELSE [x EXCEPT !.outputs = Append(@, x.drafts[e.to])]

DrmDevice(x, e) == [x EXCEPT !.store.device = TRUE]

(* Mutant: a callback that is done is destroyed by the client, too, which  *)
(* makes its ID free before the server says it is.                         *)
CallbackOfGlobalsAtOnce(x, e) ==
    LET y == Destroyed(x, e.to)
        id == Free(y)
    IN  Synchronize(AddObject(y, id, "init_done"), id)

(* After the listener was told that the globals are done.                  *)
CallbackOfGlobals(x, e) ==
    LET id == Free(x) IN Synchronize(AddObject(x, id, "init_done"), id)

DisplayDeleteId(x, e) == Destroyed(x, e.of)

(* The buffer of an imported image comes from the server.                  *)
ParamsCreated(x, e) == CreateShellSurface(AddObject(x, e.of, "dmabuf_buffer"), e.of)

(* Whether graphics are made: there must be a device.                      *)
DrmAuthenticated(x) == x.store.device

(* Whether a screenshot was asked for: what the server drew is copied      *)
(* before the file is removed.                                             *)
ScreenshotDone(x) == x.store.screenshot # 0
=============================================================================
