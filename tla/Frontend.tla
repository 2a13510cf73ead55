-------------------------------- MODULE Frontend --------------------------------
(***************************************************************************)
(* The Wayland thread with what the exhibitor does: requests of clients    *)
(* (Requests, Roles), and the engine.  The thread takes one message at a   *)
(* time.  What the exhibitor did waits in its inbox while requests are     *)
(* handled, and clients go away at any time.  A message that tells of      *)
(* requests to be read is left out: each request is an action, possible as *)
(* long as the client is not removed.                                      *)
(***************************************************************************)
EXTENDS Requests, Roles

bounds == <<group, requests, changes>>

-----------------------------------------------------------------------------
(* What the exhibitor does.                                                *)
OnlyExhibitor == UNCHANGED <<surfaces, lastSurface, memory, outputs, sources, proxy, objects, mediator,
                             clients, group, requests>>

Change(interface) ==
    interface \in group.uses /\ changes < group.changes /\ changes' = changes + 1

(* Where clients do not use these interfaces nobody is told of the focus.  *)
TellsOf(d) == IF d = "keyboard" THEN {"keyboard", "data"} ELSE {"pointer"}

(* Keyboard or pointer focus is set to a surface it knows, which may be    *)
(* destroyed, or to none.                                                  *)
SetFocus(d, s) ==
    /\ \E interface \in TellsOf(d) : Change(interface)
    /\ s # focus[d] /\ focus' = [focus EXCEPT ![d] = s]
    /\ Send([kind |-> d, old |-> focus[d], new |-> s])
    /\ UNCHANGED <<signals, forms, transfer, shots, displays, told>> /\ OnlyExhibitor

Waiting(s) == \E c \in Connected : s \in proxy[c].frames

(* A surface is drawn.                                                     *)
Draw(s) ==
    /\ Change("frames") /\ s \in Stored /\ surfaces[s].buffer
    /\ Send([kind |-> "frame", sid |-> s])
    /\ due' = IF Waiting(s) THEN due \union {s} ELSE due
    /\ UNCHANGED <<signals, forms, focus, transfer, shots, displays, entered, offered>>
    /\ OnlyExhibitor

(* A surface is given a size, which its client is told if it is another.   *)
Reconfigure(s, size) ==
    /\ Change("sizes") /\ s \in Stored
    /\ IF forms[s].desired = size THEN UNCHANGED <<forms, inbox>>
       ELSE /\ Formed(s, [forms[s] EXCEPT !.desired = size])
            /\ Send([kind |-> "reconfigured", sid |-> s])
    /\ UNCHANGED <<signals, focus, transfer, shots, displays, told>> /\ OnlyExhibitor

(* A display is created for an output found.                               *)
CreateDisplay ==
    /\ Change("registry")
    /\ displays' = displays + 1
    /\ Send([kind |-> "display", output |-> displays + 1])
    /\ UNCHANGED <<signals, forms, focus, transfer, shots, told>> /\ OnlyExhibitor

(* A screenshot is taken of a display that exists.                         *)
TakeScreenshot ==
    /\ shots > 0 /\ shots' = shots - 1
    /\ Send([kind |-> "screenshot"])
    /\ UNCHANGED <<signals, forms, focus, transfer, displays, changes, told>> /\ OnlyExhibitor

(* What the exhibitor does about surfaces is left to SurfaceLife.          *)
Deliver ==
    /\ signals # <<>> /\ signals' = Tail(signals)
    /\ UNCHANGED <<forms, inbox, focus, transfer, shots, displays, changes, told>> /\ OnlyExhibitor

-----------------------------------------------------------------------------
(* What the thread does about messages.                                    *)
OnlyHandler == UNCHANGED <<focus, transfer, shots, displays, clients, bounds>>

(* Nothing is changed but what clients know.                               *)
OnlyTelling ==
    UNCHANGED <<storage, forms, memory, outputs, sources, objects, owner, offerer>> /\ OnlyHandler

Receives(kind) == inbox # <<>> /\ Head(inbox).kind = kind /\ inbox' = Tail(inbox)

(* A surface of a client that is told about device d.                      *)
Tells(d, c, s) == c \in Connected /\ s \in proxy[c].surfaces /\ d \in proxy[c].devices

(* Who is told, of surface s.                                              *)
ToldOf(d, s) == {x \in {<<ClientOf(s), s>>} : Tells(d, x[1], s)}

LeftAndEntered(d, old, new) == (entered[d] \ ToldOf(d, old)) \union ToldOf(d, new)

(* make_data_offer to c, if it has a data device and there is a selection. *)
Offered(c) ==
    IF c \in Connected /\ "data" \in proxy[c].devices /\ transfer # None
    THEN [offered EXCEPT ![c] = transfer] ELSE offered

OnPointerFocusChanged ==
    /\ Receives("pointer")
    /\ entered' = [entered EXCEPT !["pointer"] =
                        LeftAndEntered("pointer", Head(inbox).old, Head(inbox).new)]
    /\ UNCHANGED <<proxy, shooter, offered, due>> /\ OnlyTelling

(* The clients of surfaces S are told their sizes as they are now, through *)
(* the objects of their windows.                                           *)
Configured(S) ==
    [c \in Connected |-> [proxy[c] EXCEPT !.shells =
        [s \in DOMAIN @ |-> IF s \in S \intersect Stored /\ c = ClientOf(s)
                            THEN [@[s] EXCEPT !.size = forms[s].desired] ELSE @[s]]]]

(* Mutant: the selection is offered only to a client that was focused.     *)
OfferedOnReturn(old, new) ==
    IF ClientOf(old) = ClientOf(new) /\ ClientOf(new) # None THEN Offered(ClientOf(new)) ELSE offered

(* The selection is offered to a client that was not focused.              *)
OfferedOnFocus(old, new) ==
    IF ClientOf(old) # ClientOf(new) /\ ClientOf(new) # None THEN Offered(ClientOf(new)) ELSE offered

OnKeyboardFocusChanged ==
    LET old == Head(inbox).old
        new == Head(inbox).new
    IN  /\ Receives("keyboard")
        /\ entered' = [entered EXCEPT !["keyboard"] = LeftAndEntered("keyboard", old, new)]
        /\ proxy' = Configured({s \in {old, new} : Tells("keyboard", ClientOf(s), s)})
        /\ offered' = OfferedOnFocus(old, new)
        /\ UNCHANGED <<shooter, due>> /\ OnlyTelling

(* Offered to the client that is focused now.                              *)
OnTransferOffered ==
    LET c == ClientOf(focus["keyboard"])
    IN  /\ Receives("offered")
        /\ offered' = IF c # None THEN Offered(c) ELSE offered
        /\ UNCHANGED <<proxy, shooter, entered, due>> /\ OnlyTelling

(* Whoever offers a selection now is asked for the data.                   *)
OnTransferRequested ==
    /\ Receives("requested")
    /\ UNCHANGED <<proxy, shooter, told>> /\ OnlyTelling

(* Mutant: a window with the keyboard was told when it was entered.        *)
OnSurfaceReconfiguredUnfocused ==
    /\ Receives("reconfigured")
    /\ proxy' = Configured({Head(inbox).sid} \ {focus["keyboard"]})
    /\ UNCHANGED <<shooter, told>> /\ OnlyTelling

OnSurfaceReconfigured ==
    /\ Receives("reconfigured")
    /\ proxy' = Configured({Head(inbox).sid})
    /\ UNCHANGED <<shooter, told>> /\ OnlyTelling

(* Mutant: the proxies of clients that come later lack the output.         *)
OnDisplayCreatedForThese ==
    LET output == Head(inbox).output
    IN  /\ Receives("display")
        /\ proxy' = [c \in Connected |-> [proxy[c] EXCEPT !.globals = Append(@, output)]]
        /\ UNCHANGED <<storage, forms, memory, outputs, sources, objects, mediator, told>>
        /\ OnlyHandler

(* The output is a global of the proxies there are, and will be; no client *)
(* is told.                                                                *)
OnDisplayCreated ==
    LET output == Head(inbox).output
    IN  /\ Receives("display")
        /\ outputs' = Append(outputs, output)
        /\ proxy' = [c \in Connected |-> [proxy[c] EXCEPT !.globals = Append(@, output)]]
        /\ UNCHANGED <<storage, forms, memory, sources, objects, mediator, told>> /\ OnlyHandler

(* Mutant: nothing is told of a surface without a buffer to release.       *)
OnSurfaceFrameHeld ==
    LET s == Head(inbox).sid
        c == ClientOf(s)
    IN  /\ Receives("frame")
        /\ IF c \in Connected /\ s \in proxy[c].held
           THEN /\ Proxied(c, [proxy[c] EXCEPT !.frames = @ \ {s}, !.held = @ \ {s}])
                /\ due' = due \ {s}
           ELSE UNCHANGED <<proxy, due>>
        /\ UNCHANGED <<shooter, entered, offered>> /\ OnlyTelling

(* The frame callback is done and the buffer released.                     *)
OnSurfaceFrame ==
    LET s == Head(inbox).sid
        c == ClientOf(s)
    IN  /\ Receives("frame")
        /\ IF c \in Connected
           THEN /\ Proxied(c, [proxy[c] EXCEPT !.frames = @ \ {s}, !.held = @ \ {s}])
                /\ due' = due \ {s}
           ELSE UNCHANGED <<proxy, due>>
        /\ UNCHANGED <<shooter, entered, offered>> /\ OnlyTelling

(* Mutant: the picture must still be there.                                *)
OnScreenshotDoneCarefully ==
    /\ Receives("screenshot")
    /\ shooter' = IF shooter \in Connected /\ proxy[shooter].shooter /\ proxy[shooter].memory
                  THEN None ELSE shooter
    /\ UNCHANGED <<proxy, told>> /\ OnlyTelling

(* Whoever asked last is told.                                             *)
OnScreenshotDone ==
    /\ Receives("screenshot")
    /\ shooter' = IF shooter \in Connected /\ proxy[shooter].shooter THEN None ELSE shooter
    /\ UNCHANGED <<proxy, told>> /\ OnlyTelling

-----------------------------------------------------------------------------
(* Clients come and go.                                                    *)
OnlyClients ==
    UNCHANGED <<storage, memory, forms, focus, transfer, shots, displays, outputs, mediator, told,
                bounds>>

HandleNewClient(c) ==
    /\ c = lastClient + 1 /\ c <= group.clients /\ lastClient' = c
    /\ sources' = sources \union {c}
    /\ proxy' = With(proxy, c, NewProxy) /\ objects' = With(objects, c, <<>>)
    /\ UNCHANGED <<inbox, hungup>> /\ OnlyClients

HangUp(c) ==
    /\ c \in Connected \ hungup
    /\ hungup' = hungup \union {c}
    /\ UNCHANGED <<inbox, sources, proxy, objects, lastClient>> /\ OnlyClients

(* The local dispatcher finds the connection hung up.  It forgets the      *)
(* client's handler unless there is something to be read, too.             *)
ClientHungUp(c) ==
    /\ c \in sources \intersect hungup
    /\ Send([kind |-> "terminate", client |-> c])
    /\ sources' \in {sources, sources \ {c}}
    /\ UNCHANGED <<proxy, objects, clients>> /\ OnlyClients

(* The pools c counts as its own go, and the views they know of.           *)
PoolsDestroyed(c) ==
    /\ pools' = Without(pools, proxy[c].pools)
    /\ views' = Without(views, UNION {pools[p] : p \in proxy[c].pools \intersect DOMAIN pools})

(* Mutant: only surfaces that are still stored are removed.                *)
TerminateStored(c) ==
    LET mine == proxy[c].surfaces \intersect Stored
    IN  /\ PoolsDestroyed(c)
        /\ signals' = signals
        /\ surfaces' = Without(surfaces, mine) /\ forms' = Without(forms, mine)
        /\ owner' = Without(owner, mine)

(* Proxy::terminate, executed when the proxy is dropped: its pools are     *)
(* destroyed and all the surfaces it ever had, in any order.               *)
Terminate(c) ==
    LET mine == proxy[c].surfaces
    IN  /\ PoolsDestroyed(c)
        /\ \E order \in [1..Cardinality(mine) -> mine] :
            /\ {order[i] : i \in DOMAIN order} = mine
            /\ signals' = signals \o [i \in DOMAIN order |-> [kind |-> "destroyed", sid |-> order[i]]]
        /\ surfaces' = Without(surfaces, mine) /\ forms' = Without(forms, mine)
        /\ owner' = Without(owner, mine)

(* What the client was told is gone with it.                               *)
Removed(c) ==
    /\ proxy' = Without(proxy, {c}) /\ objects' = Without(objects, {c})
    /\ entered' = [d \in Devices |-> entered[d] \ ({c} \X Sids)]
    /\ offered' = [offered EXCEPT ![c] = None]
    /\ due' = due \ proxy[c].surfaces

OnlyTermination == UNCHANGED <<lastSurface, images, makers, replaced, outputs, offerer, shooter>>

NotRemoved == UNCHANGED <<surfaces, forms, signals, pools, views, owner, proxy, objects, told>>

TerminateClient ==
    LET c == Head(inbox).client
    IN  /\ Receives("terminate")
        /\ sources' = sources \ {c}
        /\ IF c \in Connected THEN Terminate(c) /\ Removed(c) ELSE NotRemoved
        /\ OnlyTermination /\ OnlyHandler

-----------------------------------------------------------------------------
SurfaceRequest(c, s) ==
    \/ SurfaceDestroy(c, s) \/ SurfaceAttachNull(c, s) \/ SurfaceFrame(c, s) \/ SurfaceCommit(c, s)
    \/ \E b \in Ids : SurfaceAttach(c, s, b)

MemoryRequest(c) ==
    \/ ShmCreatePool(c) \/ DrmCreateBuffer(c) \/ DmabufCreateParams(c)
    \/ \E x \in Ids :
        \/ ShmCreateBuffer(c, x) \/ ShmBufferDestroy(c, x) \/ ShmPoolDestroy(c, x)
        \/ ShmPoolResize(c, x) \/ ImageDestroy(c, x)
    \/ \E o \in Oids :
        ParamsCreate(c, o) \/ \E i \in Planes \union {Cardinality(Planes)} : ParamsAdd(c, o, i)

OutputRequest(c) ==
    /\ c \in Connected
    /\ \/ GetRegistry(c)
       \/ \E o \in DOMAIN objects[c] :
           \/ OutputRelease(c, o)
           \/ \E i \in 1..(Len(outputs) + 1) : BindOutput(c, o, i)
           \/ \E b \in DOMAIN proxy[c].buffers : Shoot(c, o, b)

DeviceRequest(c) ==
    \/ \E d \in Devices \union {"data"} : GetDevice(c, d) \/ ReleaseDevice(c, d)
    \/ CreateDataSource(c) \/ DataOfferReceive(c)
    \/ \E o \in Oids : DataSourceDestroy(c, o) \/ SetSelection(c, o)

XdgRequest(c, o) ==
    \/ XdgSurfaceDestroy(c, o) \/ GetToplevel(c, o) \/ ToplevelDestroy(c, o) \/ PopupDestroy(c, o)
    \/ PositionerSet(c, o) \/ PositionerDestroy(c, o)
    \/ \E p \in Oids, r \in Oids : GetPopup(c, o, p, r)

ShellRequest(c, o) ==
    SetToplevel(c, o) \/ \E p \in Sids, placed \in BOOLEAN : SetPopup(c, o, p, placed)

RoleRequest(c, s) ==
    \/ GetXdgSurface(c, s) \/ GetShellSurface(c, s)
    \/ \E p \in Sids : GetSubsurface(c, s, p)
    \/ \E o \in Oids : SetRegion(c, s, o)
    \/ \E inside \in BOOLEAN : SetCursor(c, s, inside)

PartRequest(c, o) ==
    \/ SubsurfaceDestroy(c, o) \/ RegionDestroy(c, o)
    \/ \E where \in BOOLEAN : SubsurfaceSetPosition(c, o, where) \/ RegionAdd(c, o, where)

Client(c) ==
    \/ CompositorCreateSurface(c) \/ MemoryRequest(c) \/ OutputRequest(c) \/ DeviceRequest(c)
    \/ CreatePositioner(c) \/ CreateRegion(c)
    \/ \E s \in Sids : SurfaceRequest(c, s) \/ RoleRequest(c, s)
    \/ \E o \in Oids : XdgRequest(c, o) \/ ShellRequest(c, o) \/ PartRequest(c, o)

Exhibitor ==
    \/ \E d \in Devices, s \in {Invalid} \union Known : SetFocus(d, s)
    \/ \E s \in Sids : Draw(s) \/ \E size \in Sizes : Reconfigure(s, size)
    \/ CreateDisplay

Receive ==
    \/ OnPointerFocusChanged \/ OnKeyboardFocusChanged \/ OnTransferOffered \/ OnTransferRequested
    \/ OnSurfaceReconfigured \/ OnDisplayCreated \/ OnSurfaceFrame \/ OnScreenshotDone
    \/ TerminateClient

Next ==
    \/ \E c \in Clients : Client(c) \/ HandleNewClient(c) \/ HangUp(c) \/ ClientHungUp(c)
    \/ Exhibitor \/ TakeScreenshot \/ Deliver \/ Receive

(* The threads go on: messages and requests of screenshots are received,   *)
(* and the local dispatcher is polled for each connection.  Each of these  *)
(* steps changes the inbox or the requests.                                *)
Fairness ==
    /\ WF_inbox(Receive) /\ WF_shots(TakeScreenshot)
    /\ \A c \in Clients : WF_inbox(ClientHungUp(c))

Spec == Init /\ [][Next]_frontend /\ Fairness

-----------------------------------------------------------------------------
Queued(kinds) == \E i \in DOMAIN inbox : inbox[i].kind \in kinds

(* The proxies of all clients have the same outputs, under the same names, *)
(* whether the clients came before or after the displays: those the        *)
(* exhibitor created first, while the messages about later ones wait in    *)
(* order.  So each is there once, from the engine or from a message.       *)
OutputsAgree ==
    /\ \A c \in Connected : proxy[c].globals = outputs
    /\ \A i \in DOMAIN outputs : outputs[i] = i
    /\ LET waiting == {i \in DOMAIN inbox : inbox[i].kind = "display"}
       IN  /\ {inbox[i].output : i \in waiting} = Len(outputs) + 1 .. displays
           /\ \A i, j \in waiting : i < j => inbox[i].output < inbox[j].output

(* The globals a registry told are the first ones there are.               *)
Listed(listed) == \A i \in DOMAIN listed : i \in DOMAIN outputs /\ listed[i] = outputs[i]

RegistriesListed ==
    \A c \in Connected : \A r \in DOMAIN objects[c] :
        objects[c][r].kind = "registry" => Listed(objects[c][r].listed)

(* A client that binds a name its registry told gets the output that was   *)
(* told, whatever displays were created since it asked or while it         *)
(* connected; displays created later are bound by names it was not told.   *)
OutputsListed == OutputsAgree /\ RegistriesListed

(* The size a client was last told of a window is the one the exhibitor    *)
(* gave it, unless the message about it still waits, or the window became  *)
(* a satellite that has the size of its image.                             *)
SizeCurrent ==
    \A c \in Connected : \A s \in DOMAIN proxy[c].shells \intersect Stored :
        \/ proxy[c].shells[s].size \in {Unset, forms[s].desired}
        \/ forms[s].desired = OfImage
        \/ \E i \in DOMAIN inbox : inbox[i].kind = "reconfigured" /\ inbox[i].sid = s

(* Nothing that was stored for a client outlives it: pools, views, surfaces *)
(* and what the mediator knows of them go with the client, however its     *)
(* requests, resizes and screenshots among them, interleave.  Views of     *)
(* memory that was replaced and hardware images stay.                      *)
DeadLeaveNothing ==
    /\ \A p \in DOMAIN pools : makers[p] \in Connected
    /\ \A v \in DOMAIN views : makers[v] \in Connected \/ v \in replaced
    /\ \A s \in Stored : ClientOf(s) \in Connected
    /\ \A s \in DOMAIN owner : owner[s] \in Connected

(* At most one client believes to have the keyboard or the pointer, and    *)
(* when it has been told of all changes it is the one the exhibitor chose, *)
(* whether surfaces and clients were destroyed meanwhile or not.           *)
FocusTold ==
    \A d \in Devices :
        /\ Cardinality(entered[d]) <= 1
        /\ ~Queued({d}) => entered[d] \subseteq {<<ClientOf(focus[d]), focus[d]>>}

(* The client with the keyboard was never left with an old selection.      *)
SelectionCurrent ==
    LET c == ClientOf(focus["keyboard"])
    IN  c # None /\ ~Queued({"keyboard", "offered"}) => offered[c] \in {None, transfer}

(* A frame callback there is when its surface is drawn is done.            *)
FrameAnswered == <>[](due = {})

(* The client that asked last for a screenshot is told it is done.         *)
ScreenshotAnswered == <>[](shooter \notin Connected)
===============================================================================
